---- MODULE Spec2Model ----
(***************************************************************************)
(* The declarative HTML cleaning engine of lib/utils/jtks (html-cleaner):  *)
(* cleanHtml applies an ordered list of CleanRule to a cheerio document    *)
(* (select -> applyFilters -> executeAction) and returns $('body').html(). *)
(*                                                                         *)
(* Strings are sequences of symbols.  An HTML string is the sequence of    *)
(* its node tokens in source order, each with its nesting depth; load      *)
(* builds the tree, $('body').html() writes it back.                       *)
(***************************************************************************)
EXTENDS Integers, Sequences, FiniteSets, TLC

\* Largest number of nodes of an input fragment, longest rule list.
MaxNodes == 4
MaxRules == 2

-----------------------------------------------------------------------------
(* Strings *)

WS == " "

\* String.prototype.startsWith
StartsWith(s, v) == Len(v) <= Len(s) /\ SubSeq(s, 1, Len(v)) = v

\* String.prototype.endsWith (the '$' anchor of a RegExp)
EndsWith(s, v) == Len(v) <= Len(s) /\ SubSeq(s, Len(s) - Len(v) + 1, Len(s)) = v

\* String.prototype.includes
Includes(s, v) ==
    \E i \in 0..Len(s) : i + Len(v) <= Len(s) /\ SubSeq(s, i + 1, i + Len(v)) = v

RECURSIVE TrimStart(_)
TrimStart(s) == IF s # <<>> /\ Head(s) = WS THEN TrimStart(Tail(s)) ELSE s

RECURSIVE TrimEnd(_)
TrimEnd(s) ==
    IF s # <<>> /\ s[Len(s)] = WS THEN TrimEnd(SubSeq(s, 1, Len(s) - 1)) ELSE s

\* String.prototype.trim
Trim(s) == TrimEnd(TrimStart(s))

\* new RegExp(pattern).test(s), for patterns made of literal symbols with an
\* optional leading '^' and an optional trailing '$'.
RegExpTest(pattern, s) ==
    LET anchS == pattern # <<>> /\ Head(pattern) = "^"
        p1    == IF anchS THEN Tail(pattern) ELSE pattern
        anchE == p1 # <<>> /\ p1[Len(p1)] = "$"
        lit   == IF anchE THEN SubSeq(p1, 1, Len(p1) - 1) ELSE p1
    IN  CASE anchS /\ anchE   -> s = lit
          [] anchS /\ ~anchE  -> StartsWith(s, lit)
          [] ~anchS /\ anchE  -> EndsWith(s, lit)
          [] OTHER            -> Includes(s, lit)

-----------------------------------------------------------------------------
(* Nodes *)

NoAttr == [present |-> FALSE, value |-> <<>>]
At(v) == [present |-> TRUE, value |-> v]

\* An element with its id, class and leaf attributes.
El(tag, id, class, leaf) ==
    [kind |-> "el", tag |-> tag,
     attrs |-> [id |-> id, class |-> class, leaf |-> leaf], data |-> <<>>]

\* A text node.
Tx(s) ==
    [kind |-> "text", tag |-> "",
     attrs |-> [id |-> NoAttr, class |-> NoAttr, leaf |-> NoAttr], data |-> s]

IsTag(l) == l.kind = "el"

\* An element of the article markup with the attributes the junk cleaner
\* reads: class, style, width and height.
Junk(tag, class, style, width, height) ==
    [kind |-> "el", tag |-> tag,
     attrs |-> [id |-> NoAttr, class |-> class, leaf |-> NoAttr,
                style |-> style, width |-> width, height |-> height],
     data |-> <<>>]

\* attribute of a node label: [present, value]
AttrOf(l, name) == IF name \in DOMAIN l.attrs THEN l.attrs[name] ELSE NoAttr

\* img is a void element; the content of script, style and iframe is raw text.
VoidTags == {"img"}
RawTextTags == {"script", "style", "iframe"}

\* A start tag of one of these closes an open p element.
BlockTags == {"p", "div", "section"}

\* Elements the parser puts into the head while no body content has been seen.
HeadTags == {"script", "style"}

-----------------------------------------------------------------------------
(* HTML strings and the cheerio document *)

\* The tokens of an HTML string are its nodes in source order, d the nesting
\* depth (1 = top level of the fragment).
Tok(d, lab) == [d |-> d, lab |-> lab]

\* The open elements a token of depth d appended to h would lie in, as the
\* positions of their tokens in h.
OpenAt(h, d) ==
    {j \in 1..Len(h) : /\ h[j].d < d
                       /\ \A k \in (j + 1)..Len(h) : h[k].d > h[j].d}

\* The parser can leave token t inside the elements open at its place: none
\* inside a void element, only text inside a raw text element, no block
\* inside a p.
Nests(h, t) ==
    \A j \in OpenAt(h, t.d) :
        /\ h[j].lab.tag \notin VoidTags
        /\ h[j].lab.tag \in RawTextTags => ~IsTag(t.lab) /\ h[j].d = t.d - 1
        /\ h[j].lab.tag = "p" => ~(IsTag(t.lab) /\ t.lab.tag \in BlockTags)

\* A token may follow the string h: depths grow by at most one, only an
\* element has children, text is never empty and two runs of text never touch.
CanFollow(h, t) ==
    /\ IsTag(t.lab) \/ t.lab.data # <<>>
    /\ IF h = <<>> THEN t.d = 1
       ELSE LET p == h[Len(h)]
            IN  /\ t.d >= 1
                /\ t.d <= p.d + (IF IsTag(p.lab) THEN 1 ELSE 0)
                /\ ~(~IsTag(p.lab) /\ ~IsTag(t.lab) /\ t.d = p.d)
    /\ Nests(h, t)

RECURSIVE HtmlsOfLen(_, _)
HtmlsOfLen(labels, n) ==
    IF n = 0 THEN {<<>>}
    ELSE {Append(h, Tok(d, l)) :
            <<h, d, l>> \in {x \in HtmlsOfLen(labels, n - 1) \X (1..n) \X labels :
                                CanFollow(x[1], Tok(x[2], x[3]))}}

\* Every HTML string of at most n nodes over the given node labels.
Htmls(labels, n) == UNION {HtmlsOfLen(labels, k) : k \in 0..n}

\* The parser drops the white space that precedes the first content of the
\* document: the body opens at the first other token.
SkipLeadingSpace(h) ==
    IF h # <<>> /\ ~IsTag(h[1].lab)
    THEN LET t == TrimStart(h[1].lab.data)
         IN  IF t = <<>> THEN Tail(h) ELSE <<Tok(1, Tx(t))>> \o Tail(h)
    ELSE h

Max(S) == CHOOSE x \in S : \A y \in S : y <= x
Min(S) == CHOOSE x \in S : \A y \in S : x <= y

\* The head element of the document (the body is node 0).
HeadNode == -1

\* The tokens that reach the parser before any body content: script and
\* style elements with their text, and white space between them.
HeadLen(h) ==
    Max({k \in 0..Len(h) :
            \A i \in 1..k :
                h[i].d = 1 =>
                    IF IsTag(h[i].lab) THEN h[i].lab.tag \in HeadTags
                    ELSE TrimStart(h[i].lab.data) = <<>>})

\* load(html): nodes 1..n in document order under the head (HeadNode) and
\* the body (node 0).  par[i] is the parent the parser gave node i, att[i]
\* says that node i is still linked to it (remove() unlinks), head and body
\* that the head and the body are still linked to the html element.  The
\* white space the parser leaves in the head is not kept: nothing reads it.
Load(html) ==
    LET h  == SkipLeadingSpace(html)
        k  == HeadLen(h)
        hd == SelectSeq(SubSeq(h, 1, k), LAMBDA t : IsTag(t.lab) \/ t.d > 1)
        t  == hd \o SkipLeadingSpace(SubSeq(h, k + 1, Len(h)))
    IN  [lab  |-> [i \in 1..Len(t) |-> t[i].lab],
         par  |-> [i \in 1..Len(t) |->
                     IF t[i].d = 1 THEN (IF i <= Len(hd) THEN HeadNode ELSE 0)
                     ELSE Max({j \in 1..(i - 1) : t[j].d = t[i].d - 1})],
         att  |-> [i \in 1..Len(t) |-> TRUE],
         head |-> TRUE,
         body |-> TRUE]

Nodes(doc) == 1..Len(doc.lab)
Elements(doc) == {i \in Nodes(doc) : IsTag(doc.lab[i])}

\* i lies in the subtree of a (a itself included), following the live links.
RECURSIVE Within(_, _, _)
Within(doc, i, a) ==
    \/ i = a
    \/ i \in Nodes(doc) /\ doc.att[i] /\ Within(doc, doc.par[i], a)

\* Node i is reachable from the body of the document.
InBody(doc, i) == doc.body /\ Within(doc, i, 0)

\* Node i is reachable from the document root.
InDoc(doc, i) == InBody(doc, i) \/ (doc.head /\ Within(doc, i, HeadNode))

RECURSIVE SortedSeq(_)
SortedSeq(S) == IF S = {} THEN <<>> ELSE <<Min(S)>> \o SortedSeq(S \ {Min(S)})

Range(q) == {q[k] : k \in 1..Len(q)}

\* attribute value of an element: [present, value]
Attr(doc, i, name) ==
    CASE name = "id"    -> doc.lab[i].attrs.id
      [] name = "class" -> doc.lab[i].attrs.class
      [] name = "leaf"  -> doc.lab[i].attrs.leaf
      [] OTHER          -> NoAttr

\* A selector is a compound of an optional tag, an optional #id and an
\* optional [attribute]: 'section', '#js_content', 'span[leaf]'.
Sel(tag, id, attr) == [tag |-> tag, id |-> id, attr |-> attr]

MatchesSelector(doc, i, sel) ==
    /\ IsTag(doc.lab[i])
    /\ sel.tag = "" \/ doc.lab[i].tag = sel.tag
    /\ sel.id = <<>> \/ (Attr(doc, i, "id").present /\ Attr(doc, i, "id").value = sel.id)
    /\ sel.attr = "" \/ Attr(doc, i, sel.attr).present

\* $(selector): the matching elements of the document, in document order.
Select(doc, sel) ==
    SortedSeq({i \in Nodes(doc) : InDoc(doc, i) /\ MatchesSelector(doc, i, sel)})

\* $(elem).text(): the text of all descendants, in document order.
RECURSIVE TextFrom(_, _, _)
TextFrom(doc, a, j) ==
    IF j > Len(doc.lab) THEN <<>>
    ELSE (IF ~IsTag(doc.lab[j]) /\ Within(doc, j, a) THEN doc.lab[j].data ELSE <<>>)
         \o TextFrom(doc, a, j + 1)

\* the text of the text children only
Text_ChildrenOnly(doc, a) ==
    LET kids == SortedSeq({j \in Nodes(doc) :
                              ~IsTag(doc.lab[j]) /\ doc.att[j] /\ doc.par[j] = a})
        joined[k \in 0..Len(kids)] ==
            IF k = 0 THEN <<>> ELSE joined[k - 1] \o doc.lab[kids[k]].data
    IN  joined[Len(kids)]

Text(doc, a) == TextFrom(doc, a, a)

\* siblings() confused with nextAll(): only the siblings that follow
Siblings_FollowingOnly(doc, elems) ==
    {j \in Elements(doc) :
        \E e \in elems : j > e /\ doc.att[e] /\ doc.att[j] /\ doc.par[j] = doc.par[e]}

\* elements.siblings(): for each element the other element children of its
\* parent, as one set.
Siblings(doc, elems) ==
    {j \in Elements(doc) :
        \E e \in elems : j # e /\ doc.att[e] /\ doc.att[j] /\ doc.par[j] = doc.par[e]}

\* $(elem).nextAll(): the element siblings after elem; the body has none,
\* the head has the body.
NextAll(doc, e) ==
    CASE e = 0        -> {}
      [] e = HeadNode -> IF doc.head /\ doc.body THEN {0} ELSE {}
      [] OTHER        ->
            {j \in Elements(doc) : j > e /\ doc.att[e] /\ doc.att[j] /\ doc.par[j] = doc.par[e]}

\* the body never taken for a parent
Parent_BelowBody(doc, e) == IF doc.att[e] /\ doc.par[e] # 0 THEN {doc.par[e]} ELSE {}

\* $(elem).parent(): empty once elem is unlinked.
Parent(doc, e) == IF doc.att[e] THEN {doc.par[e]} ELSE {}

\* the children of a removed node handed to its parent
Remove_Unwrap(doc, S) ==
    [doc EXCEPT !.par = [i \in Nodes(doc) |->
                            IF doc.par[i] \in S \cap Nodes(doc)
                            THEN doc.par[doc.par[i]] ELSE doc.par[i]],
                !.att = [i \in Nodes(doc) |-> doc.att[i] /\ i \notin S],
                !.head = doc.head /\ HeadNode \notin S,
                !.body = doc.body /\ 0 \notin S]

\* .remove(): unlink every node of the set from its parent.
Remove(doc, S) ==
    [doc EXCEPT !.att = [i \in Nodes(doc) |-> doc.att[i] /\ i \notin S],
                !.head = doc.head /\ HeadNode \notin S,
                !.body = doc.body /\ 0 \notin S]

Depth(doc, i) == Cardinality({a \in Nodes(doc) : Within(doc, i, a)})

\* body children written although the body has left the document
BodyHtml_DetachedBody(doc) ==
    LET live == SortedSeq({i \in Nodes(doc) : Within(doc, i, 0)})
    IN  [k \in 1..Len(live) |-> Tok(Depth(doc, live[k]), doc.lab[live[k]])]

\* Text nodes that have become neighbours are written as one run of text.
RECURSIVE JoinText(_)
JoinText(h) ==
    IF Len(h) < 2 THEN h
    ELSE IF ~IsTag(h[1].lab) /\ ~IsTag(h[2].lab) /\ h[1].d = h[2].d
         THEN JoinText(<<Tok(h[1].d, Tx(h[1].lab.data \o h[2].lab.data))>>
                       \o SubSeq(h, 3, Len(h)))
         ELSE <<h[1]>> \o JoinText(Tail(h))

\* the null of an absent or emptied body written out as text
BodyHtml_NullAsText(doc) ==
    LET live == SortedSeq({i \in Nodes(doc) : InBody(doc, i)})
    IN  IF live = <<>> THEN <<Tok(1, Tx(<<"null">>))>>
        ELSE JoinText([k \in 1..Len(live) |-> Tok(Depth(doc, live[k]), doc.lab[live[k]])])

\* $('body').html() || '': null when no body is left in the document.
BodyHtml(doc) ==
    IF ~doc.body THEN <<>>
    ELSE LET live == SortedSeq({i \in Nodes(doc) : InBody(doc, i)})
         IN  JoinText([k \in 1..Len(live) |-> Tok(Depth(doc, live[k]), doc.lab[live[k]])])

-----------------------------------------------------------------------------
(* CleanRule and the rule engine *)

NoTextMatch == [present |-> FALSE, type |-> "", value |-> <<>>]
TextMatch(type, value) == [present |-> TRUE, type |-> type, value |-> value]
NoAttrMatch == [present |-> FALSE, name |-> "", pattern |-> <<>>]
AttrMatch(name, pattern) == [present |-> TRUE, name |-> name, pattern |-> pattern]

CleanRule(selector, action, textMatch, attrMatch) ==
    [selector |-> selector, action |-> action,
     textMatch |-> textMatch, attrMatch |-> attrMatch]

\* a node without text rejected whatever the value
TextMatches_NoEmptyText(tm, text) ==
    /\ text # <<>>
    /\ CASE tm.type = "startsWith" -> StartsWith(text, tm.value)
         [] tm.type = "contains"   -> Includes(text, tm.value)
         [] tm.type = "equals"     -> text = tm.value
         [] tm.type = "regex"      -> RegExpTest(tm.value, text)
         [] OTHER                  -> FALSE

\* the default branch keeping the node
TextMatches_UnknownKeeps(tm, text) ==
    CASE tm.type = "startsWith" -> StartsWith(text, tm.value)
      [] tm.type = "contains"   -> Includes(text, tm.value)
      [] tm.type = "equals"     -> text = tm.value
      [] tm.type = "regex"      -> RegExpTest(tm.value, text)
      [] OTHER                  -> TRUE

\* The switch on textMatch.type.
TextMatches(tm, text) ==
    CASE tm.type = "startsWith" -> StartsWith(text, tm.value)
      [] tm.type = "contains"   -> Includes(text, tm.value)
      [] tm.type = "equals"     -> text = tm.value
      [] tm.type = "regex"      -> RegExpTest(tm.value, text)
      [] OTHER                  -> FALSE

\* the '^' pattern tested with includes instead of startsWith
AttrMatches_Unanchored(am, attrValue) ==
    IF ~attrValue.present \/ attrValue.value = <<>> THEN FALSE
    ELSE IF StartsWith(am.pattern, <<"^">>)
         THEN Includes(attrValue.value, Tail(am.pattern))
         ELSE RegExpTest(am.pattern, attrValue.value)

\* The attrMatch callback.
AttrMatches(am, attrValue) ==
    IF ~attrValue.present \/ attrValue.value = <<>> THEN FALSE
    ELSE IF StartsWith(am.pattern, <<"^">>)
         THEN StartsWith(attrValue.value, Tail(am.pattern))
         ELSE RegExpTest(am.pattern, attrValue.value)

\* new RegExp(pattern) raises a SyntaxError on an unbalanced '('.
RegExpValid(pattern) == \A k \in 1..Len(pattern) : pattern[k] # "("

\* the text compared without trim()
FilterText_NoTrim(doc, elements, rule) ==
    SelectSeq(elements, LAMBDA e : TextMatches(rule.textMatch, Text(doc, e)))

\* elements.filter(...) with the textMatch callback
FilterText(doc, elements, rule) ==
    SelectSeq(elements, LAMBDA e : TextMatches(rule.textMatch, Trim(Text(doc, e))))

\* elements.filter(...) with the attrMatch callback
FilterAttr(doc, elements, rule) ==
    SelectSeq(elements,
              LAMBDA e : AttrMatches(rule.attrMatch, Attr(doc, e, rule.attrMatch.name)))

\* elements after the textMatch block
AfterTextMatch(doc, elements, rule) ==
    IF rule.textMatch.present THEN FilterText(doc, elements, rule) ELSE elements

\* the attrMatch filter run on the selection instead of the narrowed elements
applyFilters_AttrOnSelection(doc, elements, rule) ==
    IF rule.attrMatch.present
    THEN SelectSeq(elements,
                   LAMBDA e : AttrMatches(rule.attrMatch, Attr(doc, e, rule.attrMatch.name)))
    ELSE AfterTextMatch(doc, elements, rule)

applyFilters(doc, elements, rule) ==
    LET afterText == AfterTextMatch(doc, elements, rule)
    IN  IF rule.attrMatch.present THEN FilterAttr(doc, afterText, rule) ELSE afterText

\* The textMatch callback builds the RegExp for each element it is called on.
TextMatchThrows(elements, rule) ==
    /\ rule.textMatch.present
    /\ rule.textMatch.type = "regex"
    /\ ~RegExpValid(rule.textMatch.value)
    /\ elements # <<>>

\* The attrMatch callback builds the RegExp only past the two early returns.
AttrMatchThrows(doc, elements, rule) ==
    /\ rule.attrMatch.present
    /\ ~StartsWith(rule.attrMatch.pattern, <<"^">>)
    /\ ~RegExpValid(rule.attrMatch.pattern)
    /\ \E e \in Range(elements) :
          LET attrValue == Attr(doc, e, rule.attrMatch.name)
          IN  attrValue.present /\ attrValue.value # <<>>

\* applyFilters leaves by an exception.
applyFiltersThrows(doc, elements, rule) ==
    \/ TextMatchThrows(elements, rule)
    \/ AttrMatchThrows(doc, AfterTextMatch(doc, elements, rule), rule)

\* only the first match processed
RemoveAfterEach_FirstOnly(doc, elements) ==
    IF elements = <<>> THEN doc
    ELSE Remove(Remove(doc, NextAll(doc, Head(elements))), {Head(elements)})

\* case 'remove-after': elements.each(...), one element after the other on
\* the document as the previous ones left it.
RECURSIVE RemoveAfterEach(_, _)
RemoveAfterEach(doc, elements) ==
    IF elements = <<>> THEN doc
    ELSE LET elem == Head(elements)
             d1   == Remove(doc, NextAll(doc, elem))
             d2   == Remove(d1, {elem})
         IN  RemoveAfterEach(d2, Tail(elements))

\* the parent removed without its following siblings
RECURSIVE RemoveParentAfterEach_ParentOnly(_, _)
RemoveParentAfterEach_ParentOnly(doc, elements) ==
    IF elements = <<>> THEN doc
    ELSE RemoveParentAfterEach_ParentOnly(Remove(doc, Parent(doc, Head(elements))),
                                          Tail(elements))

\* case 'remove-parent-after': elements.each(...)
RECURSIVE RemoveParentAfterEach(_, _)
RemoveParentAfterEach(doc, elements) ==
    IF elements = <<>> THEN doc
    ELSE LET parent == Parent(doc, Head(elements))
             d1     == Remove(doc, UNION {NextAll(doc, p) : p \in parent})
             d2     == Remove(d1, parent)
         IN  RemoveParentAfterEach(d2, Tail(elements))

\* remove-after that leaves the matched element in place
executeAction_KeepsMarker(doc, elements, action) ==
    IF Len(elements) = 0 THEN doc
    ELSE CASE action = "keep-only"           -> Remove(doc, Siblings(doc, Range(elements)))
           [] action = "remove"              -> Remove(doc, Range(elements))
           [] action = "remove-after"        ->
                Remove(doc, UNION {NextAll(doc, e) : e \in Range(elements)})
           [] action = "remove-parent-after" -> RemoveParentAfterEach(doc, elements)
           [] OTHER                          -> doc

\* remove that takes only the first match
executeAction_RemoveFirst(doc, elements, action) ==
    IF Len(elements) = 0 THEN doc
    ELSE CASE action = "keep-only"           -> Remove(doc, Siblings(doc, Range(elements)))
           [] action = "remove"              -> Remove(doc, {Head(elements)})
           [] action = "remove-after"        -> RemoveAfterEach(doc, elements)
           [] action = "remove-parent-after" -> RemoveParentAfterEach(doc, elements)
           [] OTHER                          -> doc

\* keep-only without the guard, written as "remove whatever is not selected"
executeAction_KeepOnlyWipes(doc, elements, action) ==
    CASE action = "keep-only"           ->
            Remove(doc, {j \in Elements(doc) : doc.par[j] = 0 /\ j \notin Range(elements)}
                        \cup Siblings(doc, Range(elements)))
      [] action = "remove"              -> Remove(doc, Range(elements))
      [] action = "remove-after"        -> RemoveAfterEach(doc, elements)
      [] action = "remove-parent-after" -> RemoveParentAfterEach(doc, elements)
      [] OTHER                          -> doc

executeAction(doc, elements, action) ==
    IF Len(elements) = 0 THEN doc
    ELSE CASE action = "keep-only"           -> Remove(doc, Siblings(doc, Range(elements)))
           [] action = "remove"              -> Remove(doc, Range(elements))
           [] action = "remove-after"        -> RemoveAfterEach(doc, elements)
           [] action = "remove-parent-after" -> RemoveParentAfterEach(doc, elements)
           [] OTHER                          -> doc

applyCleanRule(doc, rule) ==
    executeAction(doc, applyFilters(doc, Select(doc, rule.selector), rule), rule.action)

RECURSIVE ApplyRules(_, _)
ApplyRules(doc, rs) ==
    IF rs = <<>> THEN doc ELSE ApplyRules(applyCleanRule(doc, Head(rs)), Tail(rs))

\* cleanHtml(html, rules) as a function of its arguments.
cleanHtml(h, rs) == BodyHtml(ApplyRules(Load(h), rs))

-----------------------------------------------------------------------------
(* cleanWechatCommonIssues: the five fixed passes of the junk cleaner *)

\* Largest number of nodes of an input of the junk cleaner.
MaxJunkNodes == 3

\* str.indexOf(sym), counted from 1 (0 when sym does not occur)
IndexOf(s, sym) ==
    IF \E k \in 1..Len(s) : s[k] = sym THEN Min({k \in 1..Len(s) : s[k] = sym}) ELSE 0

\* s.split(sep)
RECURSIVE Split(_, _)
Split(s, sep) ==
    IF IndexOf(s, sep) = 0 THEN <<s>>
    ELSE <<SubSeq(s, 1, IndexOf(s, sep) - 1)>>
         \o Split(SubSeq(s, IndexOf(s, sep) + 1, Len(s)), sep)

\* No declaration has been read yet.
NoKey == [def |-> FALSE, k |-> <<>>]

\* The style parser of .css(): a piece 'key:value' sets the property key, a
\* piece without a colon (or with it first or last) is added to the value
\* of the last key.  val is the value of the property prop so far.
RECURSIVE CssFold(_, _, _, _)
CssFold(pieces, prop, key, val) ==
    IF pieces = <<>> THEN val
    ELSE LET str == Head(pieces)
             n   == IndexOf(str, ":")
         IN  IF n < 2 \/ n = Len(str)
             THEN CssFold(Tail(pieces), prop, key,
                          IF TrimEnd(str) # <<>> /\ key.def /\ key.k = prop
                          THEN At(val.value \o <<";">> \o TrimEnd(str))
                          ELSE val)
             ELSE LET k == Trim(SubSeq(str, 1, n - 1))
                  IN  CssFold(Tail(pieces), prop, [def |-> TRUE, k |-> k],
                              IF k = prop
                              THEN At(Trim(SubSeq(str, n + 1, Len(str))))
                              ELSE val)

\* $img.css(prop): the property of the style attribute, undefined without.
Css(l, prop) ==
    LET style  == AttrOf(l, "style")
        styles == IF style.present THEN Trim(style.value) ELSE <<>>
    IN  IF styles = <<>> THEN NoAttr
        ELSE CssFold(Split(styles, ";"), <<prop>>, NoKey, NoAttr)

\* $img.attr(name) || $img.css(name)
Dimension(l, name) ==
    IF AttrOf(l, name).present /\ AttrOf(l, name).value # <<>>
    THEN AttrOf(l, name)
    ELSE Css(l, name)

\* x === '1' || x === '1px'
IsOne(x) == x.present /\ x.value \in {<<"1">>, <<"1px">>}

\* one dimension of 1 is enough
IsTrackingPixel_Either(l) ==
    IsOne(Dimension(l, "width")) \/ IsOne(Dimension(l, "height"))

\* The test of the tracking-pixel pass.
IsTrackingPixel(l) ==
    IsOne(Dimension(l, "width")) /\ IsOne(Dimension(l, "height"))

\* $('tag, tag'): the elements of the document with one of the tags
SelectTags(doc, tags) ==
    {i \in Elements(doc) : InDoc(doc, i) /\ doc.lab[i].tag \in tags}

\* $('[name*="v"]'): the elements whose attribute name contains v
SelectAttrContains(doc, name, v) ==
    {i \in Elements(doc) :
        /\ InDoc(doc, i)
        /\ AttrOf(doc.lab[i], name).present
        /\ Includes(AttrOf(doc.lab[i], name).value, v)}

\* :empty: no element and no text among the children
IsEmpty(doc, i) ==
    ~\E j \in Nodes(doc) :
        /\ doc.att[j] /\ doc.par[j] = i
        /\ IsTag(doc.lab[j]) \/ doc.lab[j].data # <<>>

\* 1. $('img').each(...): remove the 1x1 images
RemoveTrackingPixels(doc) ==
    Remove(doc, {i \in SelectTags(doc, {"img"}) : IsTrackingPixel(doc.lab[i])})

\* the forms with a space after the colon forgotten
HiddenStyles_NoSpace ==
    <<<<"display", ":", "none">>, <<"visibility", ":", "hidden">>>>

\* The four substrings of the hidden-element pass, in the order of the code.
HiddenStyles ==
    <<<<"display", ":", "none">>, <<"display", ":", WS, "none">>,
      <<"visibility", ":", "hidden">>, <<"visibility", ":", WS, "hidden">>>>

RECURSIVE RemoveStyled(_, _)
RemoveStyled(doc, patterns) ==
    IF patterns = <<>> THEN doc
    ELSE RemoveStyled(Remove(doc, SelectAttrContains(doc, "style", Head(patterns))),
                      Tail(patterns))

\* 2. the four $('[style*="..."]').remove()
RemoveHidden(doc) == RemoveStyled(doc, HiddenStyles)

\* only the empty p removed
RemoveEmpty_OnlyP(doc) ==
    Remove(doc, {i \in SelectTags(doc, {"p"}) : IsEmpty(doc, i)})

\* 3. $('p:empty, div:empty').remove()
RemoveEmpty(doc) ==
    Remove(doc, {i \in SelectTags(doc, {"p", "div"}) : IsEmpty(doc, i)})

\* 4. $('iframe, script, style').remove()
RemoveEmbedded(doc) == Remove(doc, SelectTags(doc, {"iframe", "script", "style"}))

\* The marker of the WeChat widgets in a class attribute.
JsWx == <<"js_wx_">>

\* the widgets pass also sweeping the p and div it has emptied
RemoveWidgets_AndEmptied(doc) ==
    RemoveEmpty(Remove(doc, SelectAttrContains(doc, "class", JsWx)))

\* 5. $('[class*="js_wx_"]').remove()
RemoveWidgets(doc) == Remove(doc, SelectAttrContains(doc, "class", JsWx))

\* cleanWechatCommonIssues(html) as a function of its argument.
cleanWechatCommonIssues(h) ==
    BodyHtml(RemoveWidgets(RemoveEmbedded(RemoveEmpty(RemoveHidden(
        RemoveTrackingPixels(Load(h)))))))

\* The passes by their number in the code.
Pass(k, doc) ==
    CASE k = 1 -> RemoveTrackingPixels(doc)
      [] k = 2 -> RemoveHidden(doc)
      [] k = 3 -> RemoveEmpty(doc)
      [] k = 4 -> RemoveEmbedded(doc)
      [] k = 5 -> RemoveWidgets(doc)

\* The passes run in the given order.
RECURSIVE RunPasses(_, _)
RunPasses(doc, order) ==
    IF order = <<>> THEN doc ELSE RunPasses(Pass(Head(order), doc), Tail(order))

-----------------------------------------------------------------------------
(* cleanWechatHtml and the feed of parseWechatRss *)

\* applyFilters raises an exception under one of the rules rs run on doc.
RECURSIVE RulesThrow(_, _)
RulesThrow(doc, rs) ==
    /\ rs # <<>>
    /\ \/ applyFiltersThrows(doc, Select(doc, Head(rs).selector), Head(rs))
       \/ RulesThrow(applyCleanRule(doc, Head(rs)), Tail(rs))

\* cleanHtml(html, rules) leaves by an exception.
cleanHtmlThrows(h, rs) == RulesThrow(Load(h), rs)

\* the junk cleaner forgotten
cleanWechatHtml_RulesOnly(h, rs) == cleanHtml(h, rs)

\* cleanWechatHtml(html, rules): the rules, then the junk cleaner.
cleanWechatHtml(h, rs) ==
    LET cleaned == cleanHtml(h, rs)
    IN  cleanWechatCommonIssues(cleaned)

\* Largest number of items of a feed, of nodes of a description.
MaxItems == 2
MaxFeedNodes == 2

\* A number, NaN, undefined.
Num(n) == [undefined |-> FALSE, nan |-> FALSE, n |-> n]
NaN == [undefined |-> FALSE, nan |-> TRUE, n |-> 0]
Undefined == [undefined |-> TRUE, nan |-> FALSE, n |-> 0]

\* limit: number = 20
DefaultLimit == 20
LimitOrDefault(l) == IF l.undefined THEN Num(DefaultLimit) ELSE l

\* the end index taken as the last index
Slice_Inclusive(q, end) ==
    SubSeq(q, 1, IF end.nan THEN 0
                 ELSE IF end.n < 0 THEN Max({Len(q) + end.n + 1, 0})
                 ELSE Min({end.n + 1, Len(q)}))

\* Array.prototype.slice(0, end): NaN counts as 0, a negative end counts
\* from the end of the array.
Slice(q, end) ==
    SubSeq(q, 1, IF end.nan THEN 0
                 ELSE IF end.n < 0 THEN Max({Len(q) + end.n, 0})
                 ELSE Min({end.n, Len(q)}))

\* The <description> of an item: absent, a CDATA section around the string
\* s, the string s written with entities, or the string s as child markup.
NoDescription == [form |-> "none", body |-> <<>>]
CData(s) == [form |-> "cdata", body |-> s]
Escaped(s) == [form |-> "escaped", body |-> s]
Markup(s) == [form |-> "markup", body |-> s]

\* The text of the text nodes of s.
RECURSIVE TextOf(_)
TextOf(s) ==
    IF s = <<>> THEN <<>>
    ELSE (IF IsTag(Head(s).lab) THEN <<>> ELSE Head(s).lab.data) \o TextOf(Tail(s))

\* parsed as HTML a CDATA section is a comment: it has no text
DescriptionText_NoCData(x) ==
    CASE x.form = "escaped" -> x.body
      [] x.form = "markup"  ->
            IF TextOf(x.body) = <<>> THEN <<>> ELSE <<Tok(1, Tx(TextOf(x.body)))>>
      [] OTHER              -> <<>>

\* $item.find('description').text() on the feed loaded in xmlMode: the
\* content of a CDATA section as it stands, entities decoded, the text of
\* child elements without their tags.
DescriptionText(x) ==
    CASE x.form = "cdata"   -> x.body
      [] x.form = "escaped" -> x.body
      [] x.form = "markup"  ->
            IF TextOf(x.body) = <<>> THEN <<>> ELSE <<Tok(1, Tx(TextOf(x.body)))>>
      [] OTHER              -> <<>>

-----------------------------------------------------------------------------
(* The route handlers of wx-huxiu and wx-xinzhiyuan *)

\* Largest number of items of the feed a handler fetches.
MaxHandlerItems == 102

\* ctx.req.query('limit'): undefined without the parameter, its string
\* otherwise, one symbol per character.
NoQuery == [present |-> FALSE, value |-> <<>>]
Query(s) == [present |-> TRUE, value |-> s]

DigitChars == <<"0", "1", "2", "3", "4", "5", "6", "7", "8", "9">>
IsDigit(ch) == \E k \in 1..10 : DigitChars[k] = ch
DigitValue(ch) == (CHOOSE k \in 1..10 : DigitChars[k] = ch) - 1

\* The digits at the front of s.
RECURSIVE LeadingDigits(_)
LeadingDigits(s) ==
    IF s # <<>> /\ IsDigit(Head(s)) THEN <<Head(s)>> \o LeadingDigits(Tail(s)) ELSE <<>>

RECURSIVE DecimalValue(_)
DecimalValue(ds) ==
    IF ds = <<>> THEN 0
    ELSE 10 * DecimalValue(SubSeq(ds, 1, Len(ds) - 1)) + DigitValue(ds[Len(ds)])

\* Number.parseInt(s, 10): white space skipped, an optional sign, then the
\* digits up to the first other character; NaN without a digit.
ParseInt(s) ==
    LET t      == TrimStart(s)
        signed == t # <<>> /\ Head(t) \in {"-", "+"}
        ds     == LeadingDigits(IF signed THEN Tail(t) ELSE t)
    IN  IF ds = <<>> THEN NaN
        ELSE Num(IF signed /\ Head(t) = "-" THEN 0 - DecimalValue(ds) ELSE DecimalValue(ds))

\* Math.min(x, n): NaN stays NaN
MathMin(x, n) == IF x.nan THEN NaN ELSE Num(Min({x.n, n}))

\* The cap of the handlers and their limit without the parameter.
HandlerCap == 100
HandlerDefault == 20

\* the parsed number passed on without Math.min
HandlerLimit_NoCap(q) ==
    IF q.present /\ q.value # <<>> THEN ParseInt(q.value) ELSE Num(HandlerDefault)

\* ctx.req.query('limit') ? Math.min(Number.parseInt(..., 10), 100) : 20
HandlerLimit(q) ==
    IF q.present /\ q.value # <<>>
    THEN MathMin(ParseInt(q.value), HandlerCap)
    ELSE Num(HandlerDefault)

\* The text a symbol stands for: the disclaimer of huxiu, the heading of
\* the references of xinzhiyuan.
Disclaimer == <<"disclaimer">>
References == <<"references">>

JsContent == <<"js_content">>

\* the rule that keeps #js_content left out
HuxiuRules_CutOnly ==
    <<CleanRule(Sel("span", <<>>, "leaf"), "remove-parent-after",
                TextMatch("startsWith", Disclaimer), NoAttrMatch)>>

\* config.cleanRules of wx-huxiu
HuxiuRules ==
    <<CleanRule(Sel("", JsContent, ""), "keep-only", NoTextMatch, NoAttrMatch),
      CleanRule(Sel("span", <<>>, "leaf"), "remove-parent-after",
                TextMatch("startsWith", Disclaimer), NoAttrMatch)>>

\* config.cleanRules of wx-xinzhiyuan
XinzhiyuanRules ==
    <<CleanRule(Sel("", JsContent, ""), "keep-only", NoTextMatch, NoAttrMatch),
      CleanRule(Sel("section", <<>>, ""), "remove-after",
                TextMatch("contains", References), NoAttrMatch)>>

-----------------------------------------------------------------------------
(* The inline cleaning steps of the earlier wx-huxiu handler *)

\* Largest number of nodes of a description of huxiu.
MaxHuxiuNodes == 5

\* const jsContent = $desc('#js_content');
\* if (jsContent.length > 0) jsContent.siblings().remove()
LegacyKeepJsContent(doc) ==
    LET jsContent == Select(doc, Sel("", JsContent, ""))
    IN  IF Len(jsContent) > 0 THEN Remove(doc, Siblings(doc, Range(jsContent))) ELSE doc

\* $desc('span[leaf]').filter(...): the spans whose trimmed text starts with
\* the disclaimer
LegacyTargetSpan(doc) ==
    SelectSeq(Select(doc, Sel("span", <<>>, "leaf")),
              LAMBDA e : StartsWith(Trim(Text(doc, e)), Disclaimer))

\* if (targetSpan.length > 0): the parents of all the spans are resolved,
\* then the siblings following them are removed, then the parents
LegacyCut(doc) ==
    LET targetSpan == LegacyTargetSpan(doc)
        parentNode == UNION {Parent(doc, e) : e \in Range(targetSpan)}
    IN  IF Len(targetSpan) > 0
        THEN Remove(Remove(doc, UNION {NextAll(doc, q) : q \in parentNode}), parentNode)
        ELSE doc

-----------------------------------------------------------------------------
(* Calls in progress *)

\* Largest number of calls in progress at once, of nodes of their inputs.
MaxCalls == 2
MaxCallNodes == 2

\* a document kept at module level: every call gets the one just loaded
SetDoc_Global(cs, c, d) == [k \in DOMAIN cs |-> [cs[k] EXCEPT !.doc = d]]

\* const $ = ...: the document is a local of the call c.
SetDoc(cs, c, d) == [cs EXCEPT ![c].doc = d]

\* A call of cleanWechatHtml(h, rules) that has not started.
NewCall(h) ==
    [html |-> h, pc |-> "load", ri |-> 1, cleaned |-> <<>>, out |-> <<>>,
     doc |-> [lab |-> <<>>, par |-> <<>>, att |-> <<>>, head |-> TRUE, body |-> TRUE]]

-----------------------------------------------------------------------------
(* One call of cleanHtml, statement by statement *)

VARIABLES
    html,   \* the argument html
    rules,  \* the argument rules
    pc,     \* "load", "rules" (the for loop), "done", "thrown"
    doc,    \* the document $ of the call
    ri,     \* index of the next rule of the loop
    step,   \* the last rule applied: the document before it, what $(selector)
            \* returned, elements after the textMatch block and after applyFilters
    out,    \* the returned string
    \* parseWechatRss
    rssData, \* the items of the fetched feed
    limit,   \* the argument limit
    todo,    \* the items the for loop has still to visit
    items,   \* the array items
    handed,  \* the strings handed to cleanWechatHtml so far, with their item
    query,   \* the 'limit' parameter of the request a handler serves
    \* several calls of cleanWechatHtml on one rule list
    calls    \* per call: html, pc, doc ($), ri, cleaned, out

feedVars == <<rssData, limit, todo, items, handed, query>>
vars == <<html, rules, pc, doc, ri, step, out, feedVars, calls>>

\* No feed is being parsed.
NoFeed ==
    /\ rssData = <<>>
    /\ limit = [undefined |-> TRUE, nan |-> FALSE, n |-> 0]
    /\ todo = <<>>
    /\ items = <<>>
    /\ handed = <<>>
    /\ query = [present |-> FALSE, value |-> <<>>]

NoDoc == [lab |-> <<>>, par |-> <<>>, att |-> <<>>, head |-> TRUE, body |-> TRUE]
NoStep == [n |-> 0, rule |-> CleanRule(Sel("", <<>>, ""), "", NoTextMatch, NoAttrMatch),
           before |-> NoDoc, selected |-> <<>>, afterText |-> <<>>, kept |-> <<>>]

\* const $ = load(html)
LoadHtml ==
    /\ pc = "load"
    /\ doc' = Load(html)
    /\ ri' = 1
    /\ pc' = "rules"
    /\ UNCHANGED <<html, rules, step, out, feedVars, calls>>

\* one iteration of the for loop: applyCleanRule($, rule); an exception of
\* applyFilters leaves cleanHtml.
ApplyCleanRule ==
    /\ pc = "rules"
    /\ ri <= Len(rules)
    /\ LET rule     == rules[ri]
           selected == Select(doc, rule.selector)
       IN  IF applyFiltersThrows(doc, selected, rule)
           THEN /\ pc' = "thrown"
                /\ step' = [n |-> ri, rule |-> rule, before |-> doc,
                            selected |-> selected, afterText |-> <<>>, kept |-> <<>>]
                /\ UNCHANGED <<doc, ri>>
           ELSE /\ doc' = executeAction(doc, applyFilters(doc, selected, rule), rule.action)
                /\ step' = [n |-> ri, rule |-> rule, before |-> doc,
                            selected |-> selected,
                            afterText |-> AfterTextMatch(doc, selected, rule),
                            kept |-> applyFilters(doc, selected, rule)]
                /\ ri' = ri + 1
                /\ pc' = pc
    /\ UNCHANGED <<html, rules, out, feedVars, calls>>

\* return $('body').html() || ''
Return ==
    /\ pc = "rules"
    /\ ri > Len(rules)
    /\ out' = BodyHtml(doc)
    /\ pc' = "done"
    /\ UNCHANGED <<html, rules, doc, ri, step, feedVars, calls>>

Next == LoadHtml \/ ApplyCleanRule \/ Return

-----------------------------------------------------------------------------
(* Inputs *)

A == <<"a">>

\* <section>, <span leaf>, and two runs of text
EngineLabels ==
    {El("section", NoAttr, NoAttr, NoAttr),
     El("span", NoAttr, NoAttr, At(<<>>)),
     Tx(A), Tx(<<WS>>)}

EngineSelectors == {Sel("section", <<>>, ""), Sel("span", <<>>, "leaf")}
Actions == {"keep-only", "remove", "remove-after", "remove-parent-after"}

\* Every selector with every action, and the filtered rules of the sources.
EngineRules ==
    {CleanRule(s, a, NoTextMatch, NoAttrMatch) : s \in EngineSelectors, a \in Actions}
    \cup {CleanRule(Sel("section", <<>>, ""), "remove-after",
                    TextMatch("contains", A), NoAttrMatch),
          CleanRule(Sel("span", <<>>, "leaf"), "remove-parent-after",
                    TextMatch("startsWith", A), NoAttrMatch),
          CleanRule(Sel("section", <<>>, ""), "remove",
                    TextMatch("equals", A), NoAttrMatch)}

RuleLists(pool, n) == UNION {[1..k -> pool] : k \in 0..n}

InitWith(hs, rls) ==
    /\ html \in hs
    /\ rules \in rls
    /\ pc = "load"
    /\ doc = NoDoc
    /\ ri = 1
    /\ step = NoStep
    /\ out = <<>>
    /\ NoFeed
    /\ calls = <<>>

Init == InitWith(Htmls(EngineLabels, MaxNodes), RuleLists(EngineRules, MaxRules))

Spec == Init /\ [][Next]_vars

\* Inputs that exercise applyFilters: one rule on 'section' with every
\* combination of a textMatch and an attrMatch, on sections with and without
\* a class.
MaxFilterNodes == 3

JD == "js_darkmode__"

FilterLabels ==
    {El("section", NoAttr, NoAttr, NoAttr),
     El("section", NoAttr, At(<<>>), NoAttr),
     El("section", NoAttr, At(<<JD, "49">>), NoAttr),
     El("section", NoAttr, At(<<"other_", JD>>), NoAttr),
     Tx(A), Tx(<<"b", "a">>), Tx(<<WS, "a", WS>>), Tx(<<WS>>)}

TextMatchTypes == {"startsWith", "contains", "equals", "regex"}

FilterTextMatches ==
    {NoTextMatch}
    \cup {TextMatch(t, v) : t \in TextMatchTypes \ {"regex"}, v \in {A, <<>>}}
    \cup {TextMatch("regex", v) :
            v \in {A, <<"^", "a", "$">>, <<"a", "$">>, <<"^", "b">>, <<>>, <<"(">>}}
    \cup {TextMatch("fuzzy", A)}

FilterAttrMatches ==
    {NoAttrMatch}
    \cup {AttrMatch("class", p) :
            p \in {<<"^", JD>>, <<JD>>, <<"^">>, <<>>, <<JD, "$">>, <<"^", JD, "49", "$">>, <<"(">>}}

FilterRules ==
    {CleanRule(Sel("section", <<>>, ""), "remove", tm, am) :
        tm \in FilterTextMatches, am \in FilterAttrMatches}

InitFilters == InitWith(Htmls(FilterLabels, MaxFilterNodes), [1..1 -> FilterRules])

SpecFilters == InitFilters /\ [][Next]_vars

-----------------------------------------------------------------------------
(* Properties of cleanHtml *)

\* The string begins with white space, which load drops.
LeadingSpace(h) == h # <<>> /\ ~IsTag(h[1].lab) /\ Head(h[1].lab.data) = WS

\* The document rule k of a second call cleanHtml(out, rules) works on, and
\* what the rule selects there.
SecondRunDoc(k) == ApplyRules(Load(out), SubSeq(rules, 1, k - 1))
SecondRunKept(k) ==
    applyFilters(SecondRunDoc(k), Select(SecondRunDoc(k), rules[k].selector), rules[k])

NoTextMatchRules == \A k \in 1..Len(rules) : ~rules[k].textMatch.present

-----------------------------------------------------------------------------
(* Properties of executeAction, read off the last rule applied *)

\* executeAction ran with the given action on a non-empty selection.
Acted(action) ==
    step.n >= 1 /\ pc # "thrown" /\ step.rule.action = action /\ step.kept # <<>>

Matched == Range(step.kept)

\* Nodes a, b had the same parent before the rule.
WereSiblings(a, b) ==
    a # b /\ InDoc(step.before, a) /\ InDoc(step.before, b)
          /\ step.before.par[a] = step.before.par[b]

\* The proper ancestors and the subtree of a node before the rule.
AncestorsBefore(n) == {a \in Nodes(doc) : a # n /\ Within(step.before, n, a)}
SubtreeBefore(n) == {i \in Nodes(doc) : Within(step.before, i, n)}

\* The rule left node i where it was.
Untouched(i) == InDoc(doc, i) /\ doc.att[i] = step.before.att[i]

\* The element children of the parent of n after the rule.
ElementSiblingsNow(n) ==
    {j \in Elements(doc) : j # n /\ doc.att[j] /\ doc.par[j] = doc.par[n]}

C2_UnmatchedSiblingsGone ==
    \A n \in Matched : \A s \in Elements(doc) :
        (WereSiblings(s, n) /\ s \notin Matched) => ~InDoc(doc, s)

C2_Kept(n) ==
    /\ \A i \in SubtreeBefore(n) \cup AncestorsBefore(n) : Untouched(i)
    /\ doc.body

FollowingBefore(n) == {s \in Elements(doc) : WereSiblings(s, n) /\ s > n}

\* The siblings of any kind that preceded n before the rule.
PrecedingBefore(n) == {s \in Nodes(doc) : WereSiblings(s, n) /\ s < n}

C3_MatchesAndFollowersGone ==
    \A n \in Matched : \A s \in {n} \cup FollowingBefore(n) : ~InDoc(doc, s)

\* n is the earliest match under its parent.
EarliestMatch(n) == \A m \in Matched : WereSiblings(m, n) => n < m

\* C3 as stated: after remove-after every match and every element sibling
\* that followed it is gone, and the siblings before the earliest match under
\* each parent and the ancestors of every match are preserved.
C3_RemoveAfterKeepsAncestors ==
    Acted("remove-after") =>
        /\ C3_MatchesAndFollowersGone
        /\ \A n \in Matched :
              /\ EarliestMatch(n) => \A s \in PrecedingBefore(n) : Untouched(s)
              /\ \A a \in AncestorsBefore(n) : Untouched(a)

\* Node i was inside a match or inside an element sibling following a match.
C3_InRemovedPart(i) ==
    \E n \in Matched : \E s \in {n} \cup FollowingBefore(n) : Within(step.before, i, s)

\* C3 amended: after remove-after every match and every element sibling that
\* followed it is gone (all matches are processed), and every node that was
\* not inside a match or inside a following element sibling of a match is
\* preserved; with a single match these are in particular all its preceding
\* siblings and all its ancestors.
C3_RemoveAfter ==
    Acted("remove-after") =>
        /\ C3_MatchesAndFollowersGone
        /\ \A i \in Nodes(doc) :
              (InDoc(step.before, i) /\ ~C3_InRemovedPart(i)) => Untouched(i)
        /\ Cardinality(Matched) = 1 =>
              \A n \in Matched : \A s \in PrecedingBefore(n) \cup AncestorsBefore(n) :
                  Untouched(s)

\* remove-after with two matches under different parents, one of them with a
\* following sibling and one with a preceding sibling that stays
C3_Witness ==
    /\ Acted("remove-after")
    /\ \E n, m \in Matched :
          /\ n # m /\ ~WereSiblings(n, m)
          /\ FollowingBefore(n) # {}
          /\ \E s \in PrecedingBefore(m) : InDoc(doc, s)

\* Node p (0 is the body) is no longer in the document.
Gone(p) == IF p = 0 THEN ~doc.body ELSE ~InDoc(doc, p)

\* Node p (0 is the body) is still linked where it was.
Preserved(p) == IF p = 0 THEN doc.body ELSE Untouched(p)

ParentBefore(n) == step.before.par[n]

\* The parent of n and the element siblings following that parent are gone.
C4_ParentAndFollowersGone(n) ==
    /\ Gone(ParentBefore(n))
    /\ ParentBefore(n) # 0 => \A s \in FollowingBefore(ParentBefore(n)) : Gone(s)

\* The siblings before the parent of n and the ancestors of that parent are
\* preserved.
C4_AroundParentPreserved(n) ==
    ParentBefore(n) # 0 =>
        \A s \in PrecedingBefore(ParentBefore(n)) \cup AncestorsBefore(ParentBefore(n))
                 \cup {0} : Preserved(s)

\* C4 as stated: after remove-parent-after, for every match, its parent and
\* the elements following the parent are gone, the siblings before the parent
\* and the grandparent chain are preserved.
C4_RemoveParentAfterEveryMatch ==
    Acted("remove-parent-after") =>
        \A n \in Matched : C4_ParentAndFollowersGone(n) /\ C4_AroundParentPreserved(n)

\* C4 amended: after remove-parent-after every match is gone; the parent of
\* the first match in document order, with its whole subtree, and every
\* element following that parent among its siblings are gone; when there is
\* a single match, the siblings before its parent and the grandparent chain
\* are preserved.
C4_RemoveParentAfter ==
    Acted("remove-parent-after") =>
        /\ \A n \in Matched : ~InDoc(doc, n)
        /\ C4_ParentAndFollowersGone(Head(step.kept))
        /\ \A i \in SubtreeBefore(ParentBefore(Head(step.kept))) : ~InDoc(doc, i)
        /\ Cardinality(Matched) = 1 => C4_AroundParentPreserved(Head(step.kept))

\* remove-parent-after with one match whose parent has a sibling before it, a
\* sibling after it and a parent of its own
C4_Witness ==
    /\ Acted("remove-parent-after")
    /\ Cardinality(Matched) = 1
    /\ LET p == ParentBefore(Head(step.kept))
       IN  /\ p # 0
           /\ FollowingBefore(p) # {}
           /\ PrecedingBefore(p) # {}
           /\ InDoc(doc, Min(PrecedingBefore(p)))

\* C5: after a remove rule no match is in the document, and every node that
\* was neither a match nor inside one is still there under the same parent,
\* the survivors in their former order.
C5_RemoveExactlyMatched ==
    Acted("remove") =>
        /\ \A n \in Matched : ~InDoc(doc, n)
        /\ \A i \in Nodes(doc) :
              (InDoc(step.before, i) /\ ~\E n \in Matched : Within(step.before, i, n))
                  => Untouched(i) /\ doc.par[i] = step.before.par[i]
        /\ LET survivors == SortedSeq({i \in Nodes(doc) : InDoc(doc, i)})
           IN  /\ doc.lab = step.before.lab
               /\ BodyHtml(doc) =
                     JoinText([k \in 1..Len(survivors) |->
                                 Tok(Depth(step.before, survivors[k]),
                                     step.before.lab[survivors[k]])])

\* remove with two matches, one of them with a child, and a node that stays
C5_Witness ==
    /\ Acted("remove")
    /\ Cardinality(Matched) >= 2
    /\ \E n \in Matched : SubtreeBefore(n) # {n}
    /\ \E i \in Nodes(doc) : InDoc(doc, i)

\* C6: a rule whose selection is empty after select and filters leaves the
\* document unchanged and raises nothing, and the loop goes on to the rules
\* that remain: the call returns only after its last rule.
C6_EmptySelectionNoOp ==
    /\ (step.n >= 1 /\ pc # "thrown" /\ step.kept = <<>>) =>
          /\ doc = step.before
          /\ pc = "rules" => ri = step.n + 1
    /\ (pc = "done" /\ step.n >= 1) => step.n = Len(rules)

\* the first rule removed what the second one selects, and a third state in
\* which a rule that matched nothing was followed by one that removed a node
C6_Witness ==
    /\ step.n = 2
    /\ pc = "rules"
    /\ step.kept = <<>>
    /\ Select(Load(html), step.rule.selector) # <<>>
    /\ doc # Load(html)

C6_WitnessLaterRuleActs ==
    /\ step.n = 2
    /\ step.kept # <<>>
    /\ doc # step.before
    /\ step.before = Load(html)
    /\ applyFilters(Load(html), Select(Load(html), rules[1].selector), rules[1]) = <<>>

-----------------------------------------------------------------------------
(* Properties of applyFilters, read off the last rule applied *)

\* applyFilters returned for the last rule.
Filtered == step.n >= 1 /\ pc # "thrown"

\* v is the front of s, a part of s.
IsPrefix(v, s) == \E k \in 0..Len(s) : s = v \o SubSeq(s, k + 1, Len(s))
IsSubstring(v, s) == \E i, j \in 0..Len(s) : i <= j /\ v = SubSeq(s, i + 1, j)

\* t is s without the white space at its two ends.
IsTrimOf(t, s) ==
    \E i, j \in 0..Len(s) :
        /\ i <= j
        /\ t = SubSeq(s, i + 1, j)
        /\ \A k \in (1..i) \cup ((j + 1)..Len(s)) : s[k] = WS
        /\ t # <<>> => (t[1] # WS /\ t[Len(t)] # WS)

\* The text of the text nodes below e, joined in document order.
RECURSIVE JoinData(_)
JoinData(q) == IF q = <<>> THEN <<>> ELSE step.before.lab[Head(q)].data \o JoinData(Tail(q))

DescendantText(e) ==
    JoinData(SortedSeq({i \in SubtreeBefore(e) : ~IsTag(step.before.lab[i])}))

\* A pattern of literal symbols between an optional '^' and an optional '$'
\* matches somewhere in s.
PatternMatchesIn(p, s) ==
    \E i, j \in 0..Len(s) :
        /\ i <= j
        /\ \/ p = SubSeq(s, i + 1, j)
           \/ p = <<"^">> \o SubSeq(s, i + 1, j) /\ i = 0
           \/ p = SubSeq(s, i + 1, j) \o <<"$">> /\ j = Len(s)
           \/ p = <<"^">> \o SubSeq(s, i + 1, j) \o <<"$">> /\ i = 0 /\ j = Len(s)

\* The mode of a textMatch holds of the trimmed text t.
ModeHolds(tm, t) ==
    \/ tm.type = "startsWith" /\ IsPrefix(tm.value, t)
    \/ tm.type = "contains" /\ IsSubstring(tm.value, t)
    \/ tm.type = "equals" /\ t = tm.value
    \/ tm.type = "regex" /\ PatternMatchesIn(tm.value, t)

PassesText(e) ==
    \E i, j \in 0..Len(DescendantText(e)) :
        LET t == SubSeq(DescendantText(e), i + 1, j)
        IN  i <= j /\ IsTrimOf(t, DescendantText(e)) /\ ModeHolds(step.rule.textMatch, t)

\* q lists nodes of p in document order.
IsSubsequence(q, p) ==
    /\ Range(q) \subseteq Range(p)
    /\ \A k \in 1..(Len(q) - 1) : q[k] < q[k + 1]

\* C8: the textMatch filter keeps a selected node exactly when its trimmed
\* descendant text satisfies the mode (prefix, substring, equality, pattern
\* found somewhere), and what it keeps is a subsequence of the selection.
C8_TextMatch ==
    (Filtered /\ step.rule.textMatch.present
              /\ step.rule.textMatch.type \in TextMatchTypes) =>
        /\ \A e \in Range(step.selected) : e \in Range(step.afterText) <=> PassesText(e)
        /\ IsSubsequence(step.afterText, step.selected)

\* a text match that kept one of two selected sections and dropped the
\* other, on text that needed trimming
C8_Witness ==
    /\ Filtered
    /\ step.rule.textMatch.present
    /\ step.rule.textMatch.type \in TextMatchTypes
    /\ step.rule.textMatch.value # <<>>
    /\ Len(step.selected) >= 2
    /\ Len(step.afterText) = 1
    /\ \E e \in Range(step.afterText) :
          /\ ~IsTrimOf(DescendantText(e), DescendantText(e))
          /\ ~InDoc(doc, e)

\* The attribute the attrMatch of the last rule names, on element e.
NamedAttr(e) == Attr(step.before, e, step.rule.attrMatch.name)

PassesAttr(e) ==
    /\ NamedAttr(e).present
    /\ NamedAttr(e).value # <<>>
    /\ IF step.rule.attrMatch.pattern # <<>> /\ Head(step.rule.attrMatch.pattern) = "^"
       THEN IsPrefix(Tail(step.rule.attrMatch.pattern), NamedAttr(e).value)
       ELSE PatternMatchesIn(step.rule.attrMatch.pattern, NamedAttr(e).value)

\* C9: the attrMatch filter keeps a node only if the named attribute is
\* present and not empty, and then exactly when the pattern after a leading
\* '^' is a literal prefix of the value, or the pattern without a leading '^'
\* matches the value as a regular expression; '^js_darkmode__' keeps
\* class="js_darkmode__49" and rejects class="other_js_darkmode__...".
C9_AttrMatch ==
    (Filtered /\ step.rule.attrMatch.present) =>
        /\ \A e \in Range(step.afterText) : e \in Range(step.kept) <=> PassesAttr(e)
        /\ IsSubsequence(step.kept, step.afterText)
        /\ \A e \in Range(step.kept) :
              NamedAttr(e).present /\ NamedAttr(e).value # <<>>
        /\ step.rule.attrMatch = AttrMatch("class", <<"^", JD>>) =>
              \A e \in Range(step.afterText) :
                  /\ NamedAttr(e) = At(<<JD, "49">>) => e \in Range(step.kept)
                  /\ NamedAttr(e) = At(<<"other_", JD>>) => e \notin Range(step.kept)

\* '^js_darkmode__' met both classes and kept only the one that starts with it
C9_Witness ==
    /\ Filtered
    /\ step.rule.attrMatch = AttrMatch("class", <<"^", JD>>)
    /\ \E e \in Range(step.kept) : NamedAttr(e) = At(<<JD, "49">>)
    /\ \E e \in Range(step.afterText) \ Range(step.kept) :
          NamedAttr(e) = At(<<"other_", JD>>)
    /\ \E e \in Range(step.kept) : ~InDoc(doc, e)

\* a pattern that matches the empty string met an empty and an absent class
C9_WitnessEmptyAttr ==
    /\ Filtered
    /\ step.rule.attrMatch.present
    /\ step.rule.attrMatch.pattern \in {<<>>, <<"^">>}
    /\ \E e \in Range(step.afterText) \ Range(step.kept) : NamedAttr(e) = At(<<>>)
    /\ \E e \in Range(step.afterText) \ Range(step.kept) : NamedAttr(e) = NoAttr
    /\ step.kept # <<>>

\* C10: with both filters the kept nodes are exactly the selected nodes that
\* pass both, whichever filter runs first; with neither filter applyFilters
\* returns the selection.
C10_FilterComposition ==
    /\ (Filtered /\ step.rule.textMatch.present /\ step.rule.attrMatch.present
                 /\ step.rule.textMatch.type \in TextMatchTypes
                 /\ RegExpValid(step.rule.textMatch.value)
                 /\ RegExpValid(step.rule.attrMatch.pattern)) =>
          /\ Range(step.kept) = {e \in Range(step.selected) : PassesText(e) /\ PassesAttr(e)}
          /\ step.kept = FilterText(step.before,
                                    FilterAttr(step.before, step.selected, step.rule),
                                    step.rule)
    /\ (Filtered /\ ~step.rule.textMatch.present /\ ~step.rule.attrMatch.present) =>
          step.kept = step.selected

\* both filters present, each of them alone keeps a node the other drops
C10_Witness ==
    /\ Filtered
    /\ step.rule.textMatch.present
    /\ step.rule.attrMatch.present
    /\ step.afterText # <<>>
    /\ \E e \in Range(step.selected) : PassesText(e) /\ ~PassesAttr(e)
    /\ \E e \in Range(step.selected) : ~PassesText(e) /\ PassesAttr(e)


-----------------------------------------------------------------------------
(* One call of cleanWechatCommonIssues *)

\* One call of cleanWechatCommonIssues, statement by statement.  step holds
\* the number of the last pass and the document before it.
JunkLoad ==
    /\ pc = "jload"
    /\ doc' = Load(html)
    /\ pc' = "pixels"
    /\ UNCHANGED <<html, rules, ri, step, out, feedVars, calls>>

PassPixels ==
    /\ pc = "pixels"
    /\ doc' = RemoveTrackingPixels(doc)
    /\ step' = [NoStep EXCEPT !.n = 1, !.before = doc]
    /\ pc' = "hidden"
    /\ UNCHANGED <<html, rules, ri, out, feedVars, calls>>

PassHidden ==
    /\ pc = "hidden"
    /\ doc' = RemoveHidden(doc)
    /\ step' = [NoStep EXCEPT !.n = 2, !.before = doc]
    /\ pc' = "empty"
    /\ UNCHANGED <<html, rules, ri, out, feedVars, calls>>

PassEmpty ==
    /\ pc = "empty"
    /\ doc' = RemoveEmpty(doc)
    /\ step' = [NoStep EXCEPT !.n = 3, !.before = doc]
    /\ pc' = "embedded"
    /\ UNCHANGED <<html, rules, ri, out, feedVars, calls>>

PassEmbedded ==
    /\ pc = "embedded"
    /\ doc' = RemoveEmbedded(doc)
    /\ step' = [NoStep EXCEPT !.n = 4, !.before = doc]
    /\ pc' = "widgets"
    /\ UNCHANGED <<html, rules, ri, out, feedVars, calls>>

PassWidgets ==
    /\ pc = "widgets"
    /\ doc' = RemoveWidgets(doc)
    /\ step' = [NoStep EXCEPT !.n = 5, !.before = doc]
    /\ pc' = "jreturn"
    /\ UNCHANGED <<html, rules, ri, out, feedVars, calls>>

\* return $('body').html() || ''
JunkReturn ==
    /\ pc = "jreturn"
    /\ out' = BodyHtml(doc)
    /\ pc' = "done"
    /\ UNCHANGED <<html, rules, doc, ri, step, feedVars, calls>>

NextJunk ==
    \/ JunkLoad \/ PassPixels \/ PassHidden \/ PassEmpty
    \/ PassEmbedded \/ PassWidgets \/ JunkReturn

\* Images with their size in attributes, in the style, in both; containers;
\* hidden elements; embedded content; a widget; text.
JunkLabels ==
    {Junk("img", NoAttr, NoAttr, At(<<"1">>), At(<<"1">>)),
     Junk("img", NoAttr, NoAttr, At(<<"2">>), At(<<"1">>)),
     Junk("img", NoAttr,
          At(<<"width", ":", "1px", ";", WS, "height", ":", WS, "1px", ";">>),
          NoAttr, NoAttr),
     Junk("img", NoAttr, At(<<"width", ":", "1px">>), At(<<>>), At(<<"1px">>)),
     Junk("img", NoAttr, At(<<"width", ":", "1px">>), At(<<"2">>), At(<<"1">>)),
     Junk("p", NoAttr, NoAttr, NoAttr, NoAttr),
     Junk("div", NoAttr, NoAttr, NoAttr, NoAttr),
     Junk("p", NoAttr, At(<<"display", ":", "none">>), NoAttr, NoAttr),
     Junk("span", NoAttr,
          At(<<"color", ":", "red", ";", "visibility", ":", WS, "hidden">>),
          NoAttr, NoAttr),
     Junk("iframe", NoAttr, NoAttr, NoAttr, NoAttr),
     Junk("script", NoAttr, NoAttr, NoAttr, NoAttr),
     Junk("style", NoAttr, NoAttr, NoAttr, NoAttr),
     Junk("div", At(<<"rich_", "js_wx_", "tap">>), NoAttr, NoAttr, NoAttr),
     Tx(A), Tx(<<WS>>)}

InitJunk ==
    /\ html \in Htmls(JunkLabels, MaxJunkNodes)
    /\ rules = <<>>
    /\ pc = "jload"
    /\ doc = NoDoc
    /\ ri = 1
    /\ step = NoStep
    /\ out = <<>>
    /\ NoFeed
    /\ calls = <<>>

SpecJunk == InitJunk /\ [][NextJunk]_vars


-----------------------------------------------------------------------------
(* Properties of cleanWechatCommonIssues *)

\* What a dimension of an image resolves to: the attribute when it is
\* present and not empty, the declaration of the inline style otherwise.
Resolved(l, name) ==
    IF AttrOf(l, name).present /\ AttrOf(l, name).value # <<>>
    THEN AttrOf(l, name).value
    ELSE IF Css(l, name).present THEN Css(l, name).value ELSE <<"undefined">>

OneByOne(l) ==
    /\ l.tag = "img"
    /\ \A name \in {"width", "height"} : Resolved(l, name) \in {<<"1">>, <<"1px">>}

\* C11: once the tracking-pixel pass has run no img both of whose dimensions
\* resolve to '1' or '1px' is left in the document, whatever its depth, and
\* none is in the returned string; an img with another width or height is
\* still where it was right after that pass.
C11_TrackingPixels ==
    /\ step.n >= 1 => \A i \in Nodes(doc) : OneByOne(doc.lab[i]) => ~InDoc(doc, i)
    /\ pc = "done" => \A k \in 1..Len(out) : ~OneByOne(out[k].lab)
    /\ step.n = 1 =>
          \A i \in Nodes(doc) :
              doc.lab[i].tag = "img" /\ ~OneByOne(doc.lab[i])
                  => /\ doc.att[i] = step.before.att[i]
                     /\ InDoc(step.before, i) => InDoc(doc, i)

\* A nested 1x1 image and an image of another size went in, an image came out.
C11_Witness ==
    /\ pc = "done"
    /\ \E k \in 1..Len(html) : html[k].d >= 2 /\ OneByOne(html[k].lab)
    /\ \E k \in 1..Len(html) : html[k].lab.tag = "img" /\ ~OneByOne(html[k].lab)
    /\ \E k \in 1..Len(out) : out[k].lab.tag = "img"

HiddenDeclarations ==
    {<<"display", ":", "none">>, <<"display", ":", WS, "none">>,
     <<"visibility", ":", "hidden">>, <<"visibility", ":", WS, "hidden">>}

IsJunk(l) ==
    \/ l.tag \in {"iframe", "script", "style"}
    \/ /\ AttrOf(l, "style").present
       /\ \E v \in HiddenDeclarations : Includes(AttrOf(l, "style").value, v)
    \/ /\ AttrOf(l, "class").present
       /\ Includes(AttrOf(l, "class").value, <<"js_wx_">>)

\* C12: the string cleanWechatCommonIssues returns holds no iframe, script
\* or style element, no element whose style contains 'display:none',
\* 'display: none', 'visibility:hidden' or 'visibility: hidden', and no
\* element whose class contains 'js_wx_'.
C12_NoJunkLeft ==
    pc = "done" => \A k \in 1..Len(out) : IsTag(out[k].lab) => ~IsJunk(out[k].lab)

\* A script and an element hidden with 'visibility: hidden' went in and
\* something else came out.
C12_Witness ==
    /\ pc = "done"
    /\ out # <<>>
    /\ \E k \in 1..Len(html) : html[k].lab.tag = "script"
    /\ \E k \in 1..Len(html) :
          /\ AttrOf(html[k].lab, "style").present
          /\ Includes(AttrOf(html[k].lab, "style").value,
                      <<"visibility", ":", WS, "hidden">>)

\* The orders in which the five passes can run.
Orders == {q \in [1..5 -> 1..5] : \A i, j \in 1..5 : q[i] = q[j] => i = j}

\* The order leaves the empty p/div pass where the code has it: after the
\* tracking-pixel and hidden passes, before the other two.
EmptyPassInPlace(q) == q[3] = 3 /\ {q[1], q[2]} = {1, 2}

\* C20 as stated: the passes run in any order return what the code returns.
C20_AnyOrder ==
    pc = "done" => \A q \in Orders : BodyHtml(RunPasses(Load(html), q)) = out

\* C20: the passes run in any order that leaves the empty p/div pass in its
\* place return what the code returns.
C20_OrderAroundEmptyPass ==
    pc = "done" =>
        \A q \in Orders :
            EmptyPassInPlace(q) => BodyHtml(RunPasses(Load(html), q)) = out

\* The hidden pass before the tracking-pixel pass and the widgets pass before
\* the embedded-content pass, on an input each of the four acts on.
C20_Witness ==
    /\ pc = "done"
    /\ out # <<>>
    /\ BodyHtml(RunPasses(Load(html), <<2, 1, 3, 5, 4>>)) = out
    /\ \E k \in 1..Len(html) : OneByOne(html[k].lab)
    /\ \E k \in 1..Len(html) : IsJunk(html[k].lab)


-----------------------------------------------------------------------------
(* parseWechatRss(config, limit): rules is config.cleanRules.  An item of
   the feed is its title, which stands for the plain text fields copied as
   they are, and its description. *)

\* await got(config.rssUrl); load(rssData, { xmlMode: true });
\* $('item').toArray().slice(0, limit)
Fetch ==
    /\ pc = "fetch"
    /\ todo' = Slice(rssData, LimitOrDefault(limit))
    /\ items' = <<>>
    /\ pc' = "loop"
    /\ UNCHANGED <<html, rules, doc, ri, step, out, rssData, limit, handed, query, calls>>

\* got rejects: nothing is parsed.
FetchFails ==
    /\ pc = "fetch"
    /\ pc' = "rejected"
    /\ UNCHANGED <<html, rules, doc, ri, step, out, feedVars, calls>>

\* One iteration of the for loop.  An exception of cleanWechatHtml is caught
\* nowhere: it rejects the promise of parseWechatRss.
ParseItem ==
    /\ pc = "loop"
    /\ todo # <<>>
    /\ LET item            == Head(todo)
           descriptionHtml == DescriptionText(item.description)
       IN  IF descriptionHtml = <<>>
           THEN /\ items' = Append(items, [title |-> item.title, description |-> <<>>])
                /\ todo' = Tail(todo)
                /\ UNCHANGED <<pc, handed>>
           ELSE /\ handed' = Append(handed, [title |-> item.title, html |-> descriptionHtml])
                /\ IF cleanHtmlThrows(descriptionHtml, rules)
                   THEN /\ pc' = "rejected"
                        /\ UNCHANGED <<todo, items>>
                   ELSE /\ items' = Append(items,
                                          [title |-> item.title,
                                           description |-> cleanWechatHtml(descriptionHtml, rules)])
                        /\ todo' = Tail(todo)
                        /\ pc' = pc
    /\ UNCHANGED <<html, rules, doc, ri, step, out, rssData, limit, query, calls>>

\* return { ..., item: items }
ReturnFeed ==
    /\ pc = "loop"
    /\ todo = <<>>
    /\ pc' = "returned"
    /\ UNCHANGED <<html, rules, doc, ri, step, out, feedVars, calls>>

NextFeed == Fetch \/ FetchFails \/ ParseItem \/ ReturnFeed

\* <section>, <div>, a 1x1 image, text
FeedLabels ==
    {El("section", NoAttr, NoAttr, NoAttr),
     Junk("div", NoAttr, NoAttr, NoAttr, NoAttr),
     Junk("img", NoAttr, NoAttr, At(<<"1">>), At(<<"1">>)),
     Tx(A)}

\* Descriptions: every string in a CDATA section, the strings of one node in
\* the other two forms.
FeedDescriptions ==
    {NoDescription}
    \cup {CData(s) : s \in Htmls(FeedLabels, MaxFeedNodes)}
    \cup {Escaped(s) : s \in Htmls(FeedLabels, 1)}
    \cup {Markup(s) : s \in Htmls(FeedLabels, 1)}

\* The items of a feed, titled by their place.
Feeds ==
    UNION {{[k \in 1..n |-> [title |-> k, description |-> q[k]]] :
                q \in [1..n -> FeedDescriptions]} : n \in 0..MaxItems}

FeedLimits == {Undefined, NaN} \cup {Num(n) : n \in (0 - MaxItems)..(MaxItems + 1)}

\* config.cleanRules: no rule, rules of the sources' kinds, and a rule whose
\* regular expression does not compile.
FeedConfigs ==
    {<<>>,
     <<CleanRule(Sel("section", <<>>, ""), "remove", NoTextMatch, NoAttrMatch)>>,
     <<CleanRule(Sel("section", <<>>, ""), "keep-only", NoTextMatch, NoAttrMatch)>>,
     <<CleanRule(Sel("section", <<>>, ""), "remove-after",
                 TextMatch("contains", A), NoAttrMatch)>>,
     <<CleanRule(Sel("section", <<>>, ""), "remove",
                 TextMatch("regex", <<"(">>), NoAttrMatch)>>}

InitFeed ==
    /\ rssData \in Feeds
    /\ limit \in FeedLimits
    /\ rules \in FeedConfigs
    /\ pc = "fetch"
    /\ todo = <<>>
    /\ items = <<>>
    /\ handed = <<>>
    /\ query = NoQuery
    /\ html = <<>>
    /\ doc = NoDoc
    /\ ri = 1
    /\ step = NoStep
    /\ out = <<>>
    /\ calls = <<>>

SpecFeed == InitFeed /\ [][NextFeed]_vars


-----------------------------------------------------------------------------
(* Properties of parseWechatRss *)

\* The description text of the k-th item of the feed.
TextOfItem(k) == DescriptionText(rssData[k].description)

\* The emitted items are the first items of the feed, in feed order.
ItemsArePrefix ==
    /\ Len(items) <= Len(rssData)
    /\ \A k \in 1..Len(items) : items[k].title = rssData[k].title

\* C13: every emitted item has the description '' when its description text
\* is empty, and then no cleaner was called for it; otherwise its description
\* is cleanWechatCommonIssues(cleanHtml(text, config.cleanRules)).
C13_ItemDescription ==
    /\ \A k \in 1..Len(items) :
          /\ items[k].title = rssData[k].title
          /\ items[k].description =
                IF TextOfItem(k) = <<>> THEN <<>>
                ELSE cleanWechatCommonIssues(cleanHtml(TextOfItem(k), rules))
    /\ \A j \in 1..Len(handed) :
          handed[j].html # <<>> /\ TextOfItem(handed[j].title) # <<>>

\* A feed was returned with an item of empty description and an item whose
\* description both cleaners have changed.
C13_Witness ==
    /\ pc = "returned"
    /\ \E k \in 1..Len(items) : TextOfItem(k) = <<>> /\ items[k].description = <<>>
    /\ \E k \in 1..Len(items) :
          /\ cleanHtml(TextOfItem(k), rules) # TextOfItem(k)
          /\ items[k].description # cleanHtml(TextOfItem(k), rules)
          /\ Len(handed) = 1

\* limit as parseWechatRss uses it
TheLimit == LimitOrDefault(limit)

\* C14 as stated: whatever limit is passed, no more than limit items are
\* emitted, and they are the first items of the feed in feed order.
C14_NeverMoreThanLimit ==
    pc = "returned" =>
        /\ ItemsArePrefix
        /\ ~TheLimit.nan => Len(items) <= TheLimit.n

\* C14: the emitted items are the first items of the feed in feed order; for
\* a limit of 0 or more there are min(limit, size of the feed) of them, none
\* for NaN, and for a negative limit all but the last -limit items.
C14_PrefixCappedByLimit ==
    /\ ItemsArePrefix
    /\ ~TheLimit.nan /\ TheLimit.n >= 0 => Len(items) <= TheLimit.n
    /\ pc = "returned" =>
          Len(items) = IF TheLimit.nan THEN 0
                       ELSE IF TheLimit.n >= 0 THEN Min({TheLimit.n, Len(rssData)})
                       ELSE Max({Len(rssData) + TheLimit.n, 0})

\* A feed of two items was cut to its first item by limit 1.
C14_Witness ==
    /\ pc = "returned"
    /\ Len(rssData) = 2
    /\ limit = Num(1)
    /\ Len(items) = 1

\* C15: an item whose description made a cleaner raise an exception is
\* emitted all the same, with the description as it was handed to the
\* cleaner.
C15_FailureKeepsItem ==
    \A j \in 1..Len(handed) :
        cleanHtmlThrows(handed[j].html, rules) =>
            \E k \in 1..Len(items) :
                /\ items[k].title = handed[j].title
                /\ items[k].description = handed[j].html

\* C17: the text extracted from a description that is a CDATA section around
\* the string s is s, and a cleaner called for that item is handed s.
C17_CDataUnwrapped ==
    /\ \A k \in 1..Len(rssData) :
          rssData[k].description.form = "cdata" =>
              TextOfItem(k) = rssData[k].description.body
    /\ \A j \in 1..Len(handed) :
          rssData[handed[j].title].description.form = "cdata" =>
              handed[j].html = rssData[handed[j].title].description.body
    /\ \A k \in 1..Len(items) :
          rssData[k].description.form = "cdata" /\ rssData[k].description.body # <<>>
              => \E j \in 1..Len(handed) :
                    handed[j] = [title |-> k, html |-> rssData[k].description.body]

\* An item with markup in a CDATA section was cleaned and emitted.
C17_Witness ==
    /\ pc = "returned"
    /\ \E k \in 1..Len(items) :
          /\ rssData[k].description.form = "cdata"
          /\ \E n \in 1..Len(rssData[k].description.body) :
                IsTag(rssData[k].description.body[n].lab)
          /\ items[k].description # <<>>


-----------------------------------------------------------------------------
(* Several calls of cleanWechatHtml in progress on one rule list, as
   concurrent requests for feeds of one source make them.  Every call runs
   to completion in the program; here their statements may interleave. *)

\* cleanHtml: const $ = load(html)
CallLoad(c) ==
    /\ calls[c].pc = "load"
    /\ calls' = [SetDoc(calls, c, Load(calls[c].html)) EXCEPT ![c].pc = "rules"]
    /\ UNCHANGED <<html, rules, pc, doc, ri, step, out, feedVars>>

\* cleanHtml: one iteration of the for loop
CallRule(c) ==
    /\ calls[c].pc = "rules"
    /\ calls[c].ri <= Len(rules)
    /\ LET rule     == rules[calls[c].ri]
           selected == Select(calls[c].doc, rule.selector)
       IN  IF applyFiltersThrows(calls[c].doc, selected, rule)
           THEN calls' = [calls EXCEPT ![c].pc = "thrown"]
           ELSE calls' = [SetDoc(calls, c, applyCleanRule(calls[c].doc, rule))
                             EXCEPT ![c].ri = calls[c].ri + 1]
    /\ UNCHANGED <<html, rules, pc, doc, ri, step, out, feedVars>>

\* cleanHtml: return $('body').html() || ''
CallReturn(c) ==
    /\ calls[c].pc = "rules"
    /\ calls[c].ri > Len(rules)
    /\ calls' = [calls EXCEPT ![c].cleaned = BodyHtml(calls[c].doc), ![c].pc = "jload"]
    /\ UNCHANGED <<html, rules, pc, doc, ri, step, out, feedVars>>

\* cleanWechatCommonIssues: const $ = load(html)
CallJunkLoad(c) ==
    /\ calls[c].pc = "jload"
    /\ calls' = [SetDoc(calls, c, Load(calls[c].cleaned)) EXCEPT ![c].pc = "passes"]
    /\ UNCHANGED <<html, rules, pc, doc, ri, step, out, feedVars>>

\* cleanWechatCommonIssues: the five passes
CallPasses(c) ==
    /\ calls[c].pc = "passes"
    /\ calls' = [SetDoc(calls, c, RunPasses(calls[c].doc, <<1, 2, 3, 4, 5>>))
                    EXCEPT ![c].pc = "jreturn"]
    /\ UNCHANGED <<html, rules, pc, doc, ri, step, out, feedVars>>

\* cleanWechatCommonIssues: return $('body').html() || ''
CallJunkReturn(c) ==
    /\ calls[c].pc = "jreturn"
    /\ calls' = [calls EXCEPT ![c].out = BodyHtml(calls[c].doc), ![c].pc = "done"]
    /\ UNCHANGED <<html, rules, pc, doc, ri, step, out, feedVars>>

NextCalls ==
    \/ \E c \in DOMAIN calls : CallLoad(c)
    \/ \E c \in DOMAIN calls : CallRule(c)
    \/ \E c \in DOMAIN calls : CallReturn(c)
    \/ \E c \in DOMAIN calls : CallJunkLoad(c)
    \/ \E c \in DOMAIN calls : CallPasses(c)
    \/ \E c \in DOMAIN calls : CallJunkReturn(c)

InitCalls ==
    /\ calls \in [1..MaxCalls -> {NewCall(h) : h \in Htmls(FeedLabels, MaxCallNodes)}]
    /\ rules \in FeedConfigs
    /\ html = <<>>
    /\ pc = "idle"
    /\ doc = NoDoc
    /\ ri = 1
    /\ step = NoStep
    /\ out = <<>>
    /\ NoFeed

SpecCalls == InitCalls /\ [][NextCalls]_vars

-----------------------------------------------------------------------------
(* Properties of concurrent calls *)

\* C16: whatever the other calls have done or are doing, a call loads its
\* own document from its own argument, its cleanHtml returns
\* cleanHtml(html, rules), it returns
\* cleanWechatCommonIssues(cleanHtml(html, rules)), and no call changes the
\* rule list.
C16_CallsAreIndependent ==
    /\ [](\A c \in DOMAIN calls :
            /\ calls[c].pc = "rules" /\ calls[c].ri = 1
                  => calls[c].doc = Load(calls[c].html)
            /\ calls[c].pc \in {"jload", "passes", "jreturn", "done"}
                  => calls[c].cleaned = cleanHtml(calls[c].html, rules)
            /\ calls[c].pc = "passes" => calls[c].doc = Load(calls[c].cleaned)
            /\ calls[c].pc = "done"
                  => calls[c].out = cleanWechatCommonIssues(cleanHtml(calls[c].html, rules)))
    /\ [][rules' = rules]_vars

\* The second call has returned a cleaned string while the first, whose
\* argument is another string, is between two rules.
C16_Witness ==
    /\ DOMAIN calls = 1..MaxCalls
    /\ calls[1].pc = "rules"
    /\ calls[1].html # calls[2].html
    /\ calls[1].doc # Load(calls[1].html)
    /\ calls[2].pc = "done"
    /\ calls[2].out # calls[2].html
    /\ calls[2].out # <<>>


-----------------------------------------------------------------------------
(* Properties of the sibling sets of executeAction *)

\* The rule unlinked node i from its parent.
Unlinked(i) == step.before.att[i] /\ ~doc.att[i]

\* C18: keep-only unlinks no matched node, also when matched nodes share a
\* parent: what it unlinks are unmatched siblings of matched nodes.
C18_KeepOnlyKeepsMatches ==
    Acted("keep-only") =>
        \A i \in Nodes(doc) :
            Unlinked(i) => /\ i \notin Matched
                           /\ \E n \in Matched : WereSiblings(i, n)

\* The text nodes that followed node n among its siblings before the rule.
TextAfterBefore(n) ==
    {s \in Nodes(doc) : ~IsTag(doc.lab[s]) /\ WereSiblings(s, n) /\ s > n}

\* C19: the sibling sets hold the text nodes too: after keep-only the parent
\* of a matched node has no children but matched nodes, after remove-after no
\* text that followed a matched node among its siblings is left, after
\* remove-parent-after none that followed the parent of a matched node.
C19_SiblingSetsCoverText ==
    /\ Acted("keep-only") =>
          \A n \in Matched : \A j \in Nodes(doc) :
              (doc.att[n] /\ doc.att[j] /\ doc.par[j] = doc.par[n]) => j \in Matched
    /\ Acted("remove-after") =>
          \A n \in Matched : \A s \in TextAfterBefore(n) : ~InDoc(doc, s)
    /\ Acted("remove-parent-after") =>
          \A n \in Matched :
              (InDoc(step.before, n) /\ ParentBefore(n) # 0)
                  => \A s \in TextAfterBefore(ParentBefore(n)) : ~InDoc(doc, s)

-----------------------------------------------------------------------------
(* Properties of the empty p/div pass *)

\* The document the empty p/div pass finds: the input after the
\* tracking-pixel and hidden passes.
BeforeEmptyPass == RunPasses(Load(html), <<1, 2>>)

IsContainer(l) == IsTag(l) /\ l.tag \in {"p", "div"}

\* The k-th token of the returned string is a p or div without children.
EmptyInOut(k) ==
    /\ IsContainer(out[k].lab)
    /\ k = Len(out) \/ out[k + 1].d <= out[k].d

\* The p and div elements of the document that have no children.
EmptyContainers(d) ==
    {i \in Nodes(d) : IsContainer(d.lab[i]) /\ InBody(d, i) /\ IsEmpty(d, i)}

\* Node j is removed by the empty p/div pass or by a pass after it.
RemovedFromThird(j) ==
    \/ j \in EmptyContainers(BeforeEmptyPass)
    \/ doc.lab[j].tag \in {"iframe", "script", "style"}
    \/ /\ AttrOf(doc.lab[j], "class").present
       /\ Includes(AttrOf(doc.lab[j], "class").value, JsWx)

\* C21 as stated: the returned string holds no p or div without children.
C21_NoEmptyContainerLeft ==
    pc = "done" => \A k \in 1..Len(out) : ~EmptyInOut(k)

\* C21: a p or div that has no children when the empty p/div pass runs, also
\* one the tracking-pixel or the hidden pass has emptied, is not in the
\* returned string; a p or div without children in the returned string had
\* children when that pass ran, and each of them was removed by that pass
\* itself (an empty p or div) or by a later pass (an iframe, script, style or
\* js_wx_ element).
C21_EmptyWhenPassRan ==
    /\ step.n >= 3 => \A i \in EmptyContainers(BeforeEmptyPass) : ~InDoc(doc, i)
    /\ pc = "done" =>
          /\ \A i \in EmptyContainers(doc) :
                /\ ~IsEmpty(BeforeEmptyPass, i)
                /\ \A j \in Nodes(doc) :
                      (BeforeEmptyPass.att[j] /\ BeforeEmptyPass.par[j] = i
                          /\ (IsTag(doc.lab[j]) \/ doc.lab[j].data # <<>>))
                          => RemovedFromThird(j)
          /\ EmptyContainers(doc) = {} <=> \A k \in 1..Len(out) : ~EmptyInOut(k)

\* A div around a p around a 1x1 image: the pixel pass emptied the p, the
\* empty pass removed it, and the div it leaves without children is returned.
C21_Witness ==
    /\ pc = "done"
    /\ \E i \in EmptyContainers(BeforeEmptyPass) :
          ~IsEmpty(Load(html), i) /\ ~InDoc(doc, i)
    /\ \E k \in 1..Len(out) : EmptyInOut(k)

-----------------------------------------------------------------------------
(* Properties of the textMatch filter on nodes without text *)

\* The text of e is empty once trimmed: it is white space throughout.
EmptyText(e) == \A k \in 1..Len(DescendantText(e)) : DescendantText(e)[k] = WS

\* The selected nodes whose trimmed text is empty.
EmptyTextSelected == {e \in Range(step.selected) : EmptyText(e)}

\* A pattern of literal symbols and anchors matches the empty string.
MatchesEmptyString(p) == p \in {<<>>, <<"^">>, <<"$">>, <<"^", "$">>}

\* C22 as stated: a selected node with empty trimmed text is kept only under
\* contains or regex with a pattern that matches the empty string, and is
\* always rejected under startsWith and equals.
C22_EmptyTextOnlyContainsRegex ==
    (Filtered /\ step.rule.textMatch.present) =>
        \A e \in EmptyTextSelected :
            /\ e \in Range(step.afterText) =>
                  /\ step.rule.textMatch.type \in {"contains", "regex"}
                  /\ MatchesEmptyString(step.rule.textMatch.value)
            /\ step.rule.textMatch.type \in {"startsWith", "equals"} =>
                  e \notin Range(step.afterText)

\* C22: a selected node with empty trimmed text is kept exactly when the
\* value is the empty string under startsWith, contains or equals, or the
\* pattern matches the empty string under regex; under any other mode it is
\* rejected.
C22_EmptyTextStandardSemantics ==
    (Filtered /\ step.rule.textMatch.present) =>
        \A e \in EmptyTextSelected :
            e \in Range(step.afterText) <=>
                \/ /\ step.rule.textMatch.type \in {"startsWith", "contains", "equals"}
                   /\ step.rule.textMatch.value = <<>>
                \/ /\ step.rule.textMatch.type = "regex"
                   /\ MatchesEmptyString(step.rule.textMatch.value)

\* equals '' kept a section holding only white space and one holding
\* nothing, and the rule removed them
C22_Witness ==
    /\ Filtered
    /\ step.rule.textMatch = TextMatch("equals", <<>>)
    /\ \E e \in EmptyTextSelected :
          DescendantText(e) # <<>> /\ e \in Range(step.afterText) /\ ~InDoc(doc, e)
    /\ \E e \in EmptyTextSelected :
          DescendantText(e) = <<>> /\ e \in Range(step.afterText) /\ ~InDoc(doc, e)

-----------------------------------------------------------------------------
(* Properties of a textMatch of unknown type *)

\* The last rule has a textMatch whose type is none of the four modes.
UnknownMode ==
    step.n >= 1 /\ step.rule.textMatch.present
                /\ step.rule.textMatch.type \notin TextMatchTypes

\* C23: a rule whose textMatch.type is none of startsWith, contains, equals
\* and regex keeps no selected node, raises nothing (also when its attrMatch
\* pattern does not compile), and leaves the document as it was: the call
\* returns what the document held before the rule.
C23_UnknownModeRejectsAll ==
    UnknownMode =>
        /\ pc # "thrown"
        /\ step.afterText = <<>>
        /\ step.kept = <<>>
        /\ doc = step.before
        /\ pc = "done" => out = BodyHtml(step.before)

\* The rule selected a section with the text 'a' and a class, its value 'a'
\* would pass under contains and its attrMatch pattern does not compile; the
\* call returned the input.
C23_Witness ==
    /\ UnknownMode
    /\ pc = "done"
    /\ out # <<>>
    /\ ~RegExpValid(step.rule.attrMatch.pattern)
    /\ \E e \in Range(step.selected) :
          /\ Includes(DescendantText(e), step.rule.textMatch.value)
          /\ NamedAttr(e).present /\ NamedAttr(e).value # <<>>

-----------------------------------------------------------------------------
(* Properties of a rule list with a pattern that does not compile *)

\* C24: a rule list with a pattern that does not compile is turned away
\* before it reaches a document, so that no call of cleanHtml, on whatever
\* document and rule list, leaves by an exception of new RegExp.
C24_NoCallRaises == pc # "thrown"

-----------------------------------------------------------------------------
(* The handlers of wx-huxiu and wx-xinzhiyuan: rules is the cleanRules of
   the config of the route *)

\* const limit = ...; return await parseWechatRss(config, limit)
HandleRequest ==
    /\ pc = "request"
    /\ limit' = HandlerLimit(query)
    /\ pc' = "fetch"
    /\ UNCHANGED <<html, rules, doc, ri, step, out, rssData, todo, items, handed,
                   query, calls>>

NextHandler == HandleRequest \/ Fetch \/ FetchFails \/ ParseItem \/ ReturnFeed

\* The parameter absent, empty, a number below, at and above the cap, zero,
\* negative numbers, and strings that are not numbers or only begin as one.
HandlerQueries ==
    {NoQuery, Query(<<>>)}
    \cup {Query(s) : s \in {<<"0">>, <<"1">>, <<"2", "0">>, <<"1", "0", "0">>,
                            <<"1", "0", "1">>, <<"2", "5", "0">>,
                            <<"-", "1">>, <<"-", "2", "0", "0">>,
                            <<"a", "b", "c">>, <<"5", "a">>, <<WS, "7">>,
                            <<"+", "3">>, <<"1", "e", "3">>, <<"-">>}}

\* A feed of n items without description.
PlainFeed(n) == [k \in 1..n |-> [title |-> k, description |-> NoDescription]]

InitHandler ==
    /\ query \in HandlerQueries
    /\ rssData \in {PlainFeed(n) : n \in 0..MaxHandlerItems}
    /\ rules \in {HuxiuRules, XinzhiyuanRules}
    /\ limit = Undefined
    /\ pc = "request"
    /\ todo = <<>>
    /\ items = <<>>
    /\ handed = <<>>
    /\ html = <<>>
    /\ doc = NoDoc
    /\ ri = 1
    /\ step = NoStep
    /\ out = <<>>
    /\ calls = <<>>

SpecHandler == InitHandler /\ [][NextHandler]_vars

-----------------------------------------------------------------------------
(* Properties of the handlers *)

\* The request has no usable 'limit' parameter: absent or empty.
NoLimitAsked == ~query.present \/ query.value = <<>>

\* The number the parameter begins with, if any.
Asked == ParseInt(query.value)

\* C25 as stated: whatever the parameter and the size of the feed, a handler
\* returns at most 100 items, and at most 20 without the parameter.
C25_AtMostHundred ==
    pc = "returned" =>
        /\ Len(items) <= HandlerCap
        /\ ~query.present => Len(items) <= HandlerDefault

\* C25: a handler returns the first items of the feed: min(20, size) of
\* them without the parameter or with an empty one, none when the parameter
\* does not begin with a number, min(k, 100, size) when it begins with the
\* number k >= 0, and all but the last k for the number -k, which is more
\* than 100 for a feed of more than 100 + k items.
C25_CappedUnlessNegative ==
    /\ pc # "request" /\ (NoLimitAsked \/ Asked.nan \/ Asked.n >= 0)
          => Len(items) <= HandlerCap
    /\ pc = "returned" =>
          /\ ItemsArePrefix
          /\ Len(items) =
                IF NoLimitAsked THEN Min({HandlerDefault, Len(rssData)})
                ELSE IF Asked.nan THEN 0
                ELSE IF Asked.n >= 0 THEN Min({Asked.n, HandlerCap, Len(rssData)})
                ELSE Max({Len(rssData) + Asked.n, 0})

\* ?limit=250 on a feed of more than 100 items returned 100 of them
C25_Witness ==
    /\ pc = "returned"
    /\ query = Query(<<"2", "5", "0">>)
    /\ Len(rssData) > HandlerCap
    /\ Len(items) = HandlerCap

-----------------------------------------------------------------------------
(* Properties of the returned string *)

\* Nothing is left in the body of the document, or the body itself is gone.
NoBodyContent(d) == ~\E i \in Nodes(d) : InBody(d, i)

\* x is an HTML string: tokens at depth 1 or more, the first at depth 1.
IsHtmlString(x) ==
    /\ DOMAIN x = 1..Len(x)
    /\ \A k \in 1..Len(x) : x[k].d >= 1
    /\ x # <<>> => x[1].d = 1

\* C26: what cleanHtml and cleanWechatCommonIssues return is a string, and
\* it is the empty string exactly when no node is left in the body of the
\* document they return from.
C26_EmptyBodyEmptyString ==
    \A c \in DOMAIN calls :
        /\ calls[c].pc \in {"jload", "passes", "jreturn", "done"}
              => IsHtmlString(calls[c].cleaned)
        /\ calls[c].pc = "jload"
              => (NoBodyContent(calls[c].doc) <=> calls[c].cleaned = <<>>)
        /\ calls[c].pc = "done"
              => /\ IsHtmlString(calls[c].out)
                 /\ NoBodyContent(calls[c].doc) <=> calls[c].out = <<>>

\* The rules have removed all of the first call's input, and cleanHtml has
\* returned ''; the junk cleaner has removed all it was handed in the
\* second call, and has returned ''.
C26_Witness ==
    /\ DOMAIN calls = 1..MaxCalls
    /\ calls[1].pc = "jload"
    /\ calls[1].html # <<>>
    /\ calls[1].cleaned = <<>>
    /\ calls[2].pc = "done"
    /\ calls[2].cleaned # <<>>
    /\ calls[2].out = <<>>

-----------------------------------------------------------------------------
(* One call of cleanWechatHtml(html, rules), statement by statement: the
   statements of cleanHtml, then those of cleanWechatCommonIssues on the
   string cleanHtml returned *)

\* Largest number of nodes of an input of cleanWechatHtml, longest rule list.
MaxCleanNodes == 4
MaxCleanRules == 2

\* let cleaned = cleanHtml(html, rules): the return of cleanHtml
ReturnCleaned ==
    /\ pc = "rules"
    /\ ri > Len(rules)
    /\ out' = BodyHtml(doc)
    /\ pc' = "cleaned"
    /\ UNCHANGED <<html, rules, doc, ri, step, feedVars, calls>>

\* cleaned = cleanWechatCommonIssues(cleaned): const $ = load(html)
LoadCleaned ==
    /\ pc = "cleaned"
    /\ doc' = Load(out)
    /\ step' = NoStep
    /\ pc' = "pixels"
    /\ UNCHANGED <<html, rules, ri, out, feedVars, calls>>

NextWechatHtml ==
    \/ LoadHtml \/ ApplyCleanRule \/ ReturnCleaned \/ LoadCleaned
    \/ PassPixels \/ PassHidden \/ PassEmpty \/ PassEmbedded \/ PassWidgets
    \/ JunkReturn

\* <section>, <p>, a 1x1 image, <script>, text
CleanLabels ==
    {El("section", NoAttr, NoAttr, NoAttr),
     Junk("p", NoAttr, NoAttr, NoAttr, NoAttr),
     Junk("img", NoAttr, NoAttr, At(<<"1">>), At(<<"1">>)),
     Junk("script", NoAttr, NoAttr, NoAttr, NoAttr),
     Tx(A)}

\* Every action on the sections and on the paragraphs, and the removal of
\* the scripts.
CleanRules ==
    {CleanRule(Sel(t, <<>>, ""), a, NoTextMatch, NoAttrMatch) :
        t \in {"section", "p"}, a \in Actions}
    \cup {CleanRule(Sel("script", <<>>, ""), "remove", NoTextMatch, NoAttrMatch)}

InitWechatHtml ==
    InitWith(Htmls(CleanLabels, MaxCleanNodes), RuleLists(CleanRules, MaxCleanRules))

SpecWechatHtml == InitWechatHtml /\ [][NextWechatHtml]_vars

-----------------------------------------------------------------------------
(* Properties of cleanWechatHtml: nothing but removal *)

\* a can be had from b by leaving members out.
RECURSIVE IsSubSeqOf(_, _)
IsSubSeqOf(a, b) ==
    IF a = <<>> THEN TRUE
    ELSE IF b = <<>> THEN FALSE
    ELSE IF Head(a) = Head(b) THEN IsSubSeqOf(Tail(a), Tail(b))
    ELSE IsSubSeqOf(a, Tail(b))

\* The element tokens of an HTML string, with their depth and attributes.
ElementsOf(x) == SelectSeq(x, LAMBDA t : IsTag(t.lab))

\* The string x holds elements and text of the string y only, as they are in
\* y (same depth, same attributes) and in the order they have in y.
OnlyRemoved(x, y) ==
    /\ IsSubSeqOf(ElementsOf(x), ElementsOf(y))
    /\ IsSubSeqOf(TextOf(x), TextOf(y))

\* The tree t is the tree s with nodes unlinked: the same nodes with the
\* same labels under the same parents, no node linked that was not.
OnlyUnlinked(t, s) ==
    /\ t.lab = s.lab
    /\ t.par = s.par
    /\ \A i \in Nodes(s) : t.att[i] => s.att[i]
    /\ t.head => s.head
    /\ t.body => s.body

\* The string cleanHtml was given, the string it returned.
Cleaned == cleanHtml(html, rules)

\* C27: every rule of cleanHtml and every pass of cleanWechatCommonIssues
\* leaves the tree it found with nodes unlinked and nothing else changed: no
\* node added, none under another parent, no label (tag, attributes, text)
\* rewritten.  The string each of the two returns holds only elements and
\* text of the document it parsed, at their depth, with their attributes and
\* in their order.
C27_RemovalOnly ==
    /\ step.n >= 1 => OnlyUnlinked(doc, step.before)
    /\ pc = "rules" => OnlyUnlinked(doc, Load(html))
    /\ pc = "cleaned" => OnlyRemoved(out, BodyHtml(Load(html)))
    /\ pc \in {"pixels", "hidden", "empty", "embedded", "widgets", "jreturn"}
          => OnlyUnlinked(doc, Load(out))
    /\ pc = "done" =>
          /\ OnlyUnlinked(doc, Load(Cleaned))
          /\ OnlyRemoved(out, BodyHtml(Load(Cleaned)))
          /\ OnlyRemoved(out, BodyHtml(Load(html)))

\* A rule has removed a node, a pass another one, and two nodes are left.
C27_Witness ==
    /\ pc = "done"
    /\ Cleaned # BodyHtml(Load(html))
    /\ out # Cleaned
    /\ Len(out) >= 2
    /\ Len(ElementsOf(out)) >= 1

-----------------------------------------------------------------------------
(* Properties of remove-parent-after on a child of the body *)

\* The matched nodes that were children of the body before the rule.
TopLevelMatches == {n \in Matched : ParentBefore(n) = 0}

\* The last rule found a document without body.
BodyWasGone == step.n >= 1 /\ pc # "thrown" /\ ~step.before.body

\* C28 as stated: remove-parent-after with a matched child of the body
\* removes the body; every later rule selects nothing; cleanHtml returns ''.
C28_AnyTopLevelMatch ==
    /\ Acted("remove-parent-after") /\ TopLevelMatches # {} => ~doc.body
    /\ BodyWasGone => step.selected = <<>>
    /\ pc = "cleaned" /\ ~doc.body => out = <<>>

\* C28: remove-parent-after whose first match in document order is a child
\* of the body removes the body; a later rule then finds no body, selects no
\* node but those the parser has put into the head, and cleanHtml returns ''
\* whatever else the fragment held.
C28_FirstMatchTopLevel ==
    /\ Acted("remove-parent-after") /\ Head(step.kept) \in TopLevelMatches
          => ~doc.body
    /\ BodyWasGone =>
          /\ ~doc.body
          /\ \A e \in Range(step.selected) : step.before.par[e] = HeadNode
    /\ pc = "cleaned" /\ ~doc.body => out = <<>>

\* The first rule matched a paragraph at the top of a fragment that held a
\* script before it and text after it and removed the body, the second rule
\* selected the script in the head, and cleanHtml returned ''.
C28_Witness ==
    /\ pc = "cleaned"
    /\ Len(rules) = 2
    /\ rules[1].action = "remove-parent-after"
    /\ ~applyCleanRule(Load(html), rules[1]).body
    /\ BodyWasGone
    /\ step.selected # <<>>
    /\ \E k \in 1..Len(html) : ~IsTag(html[k].lab) /\ html[k].d = 1
    /\ out = <<>>

-----------------------------------------------------------------------------
(* Properties of a 'contains' textMatch on nested nodes *)

\* The rule of xinzhiyuan that cuts an article at its references, the text
\* 'a' standing for the heading.
ReferencesRule ==
    CleanRule(Sel("section", <<>>, ""), "remove-after", TextMatch("contains", A), NoAttrMatch)

\* Node s held the heading before the rule: a text node below it has it.
EnclosesHeading(s) ==
    \E i \in SubtreeBefore(s) :
        ~IsTag(step.before.lab[i]) /\ IsSubstring(A, step.before.lab[i].data)

\* The sections of the document the rule found.
SectionsBefore ==
    {s \in Elements(doc) : InDoc(step.before, s) /\ step.before.lab[s].tag = "section"}

\* The sections that held the heading and lay in no other section.
OutermostWithHeading ==
    {s \in SectionsBefore :
        /\ EnclosesHeading(s)
        /\ AncestorsBefore(s) \cap SectionsBefore = {}}

\* C29: under 'contains' every selected ancestor of a node the textMatch
\* keeps is kept too; so the rule (section, contains, remove-after) removes
\* the outermost section around the heading and every element sibling that
\* followed that section.
C29_ContainsUpwardClosed ==
    /\ (Filtered /\ step.rule.textMatch.present /\ step.rule.textMatch.type = "contains") =>
          \A e \in Range(step.afterText) :
              \A a \in AncestorsBefore(e) \cap Range(step.selected) :
                  a \in Range(step.afterText)
    /\ (Filtered /\ step.rule = ReferencesRule) =>
          \A s \in OutermostWithHeading :
              /\ s \in Matched
              /\ ~InDoc(doc, s)
              /\ \A f \in FollowingBefore(s) : ~InDoc(doc, f)

\* The heading lay in a section inside a section; the rule kept both
\* sections and removed the outer one with the element after it.
C29_Witness ==
    /\ Filtered
    /\ step.rule = ReferencesRule
    /\ \E s \in OutermostWithHeading :
          /\ \E e \in Matched : s \in AncestorsBefore(e)
          /\ FollowingBefore(s) # {}
          /\ ~InDoc(doc, s)

-----------------------------------------------------------------------------
(* cleanHtml(html, huxiu cleanRules), then the inline steps of the earlier
   handler on the same description: calls[1] is the frame of the inline
   steps *)

\* const $desc = load(descriptionHtml)
LegacyLoad ==
    /\ pc = "done"
    /\ calls[1].pc = "load"
    /\ calls' = [calls EXCEPT ![1].doc = Load(calls[1].html), ![1].pc = "keep"]
    /\ UNCHANGED <<html, rules, pc, doc, ri, step, out, feedVars>>

\* 1. keep #js_content
LegacyKeepOnly ==
    /\ calls[1].pc = "keep"
    /\ calls' = [calls EXCEPT ![1].doc = LegacyKeepJsContent(calls[1].doc), ![1].pc = "cut"]
    /\ UNCHANGED <<html, rules, pc, doc, ri, step, out, feedVars>>

\* 2. cut at the disclaimer
LegacyCutAtDisclaimer ==
    /\ calls[1].pc = "cut"
    /\ calls' = [calls EXCEPT ![1].doc = LegacyCut(calls[1].doc), ![1].pc = "return"]
    /\ UNCHANGED <<html, rules, pc, doc, ri, step, out, feedVars>>

\* descriptionHtml = $desc('body').html() || ''
LegacyReturn ==
    /\ calls[1].pc = "return"
    /\ calls' = [calls EXCEPT ![1].out = BodyHtml(calls[1].doc), ![1].pc = "done"]
    /\ UNCHANGED <<html, rules, pc, doc, ri, step, out, feedVars>>

NextHuxiu ==
    \/ LoadHtml \/ ApplyCleanRule \/ Return
    \/ LegacyLoad \/ LegacyKeepOnly \/ LegacyCutAtDisclaimer \/ LegacyReturn

\* <div id="js_content">, <section>, <span leaf>, the disclaimer, other text
HuxiuLabels ==
    {El("div", At(JsContent), NoAttr, NoAttr),
     El("section", NoAttr, NoAttr, NoAttr),
     El("span", NoAttr, NoAttr, At(<<>>)),
     Tx(Disclaimer), Tx(A)}

InitHuxiu ==
    /\ html \in Htmls(HuxiuLabels, MaxHuxiuNodes)
    /\ rules = HuxiuRules
    /\ pc = "load"
    /\ doc = NoDoc
    /\ ri = 1
    /\ step = NoStep
    /\ out = <<>>
    /\ NoFeed
    /\ calls = <<NewCall(html)>>

SpecHuxiu == InitHuxiu /\ [][NextHuxiu]_vars

-----------------------------------------------------------------------------
(* Properties of the huxiu rules beside the inline steps *)

\* Both cleanings of the description have returned.
BothDone == pc = "done" /\ calls # <<>> /\ calls[1].pc = "done"

\* The nodes left in a document.
LiveNodes(d) == {i \in Nodes(d) : InDoc(d, i)}

\* The two documents are the same tree and were written as the same string.
SameTree ==
    /\ LiveNodes(doc) = LiveNodes(calls[1].doc)
    /\ doc.body = calls[1].doc.body
    /\ doc.head = calls[1].doc.head
    /\ out = calls[1].out

\* The spans the disclaimer rule matched.
DisclaimerSpans ==
    IF step.rule.action = "remove-parent-after" THEN Matched ELSE {}

\* A matched span was an element sibling following the parent of another
\* matched span.
SpanFollowsParentOfSpan ==
    \E n, f \in DisclaimerSpans :
        /\ ParentBefore(n) \in Nodes(doc)
        /\ f \in FollowingBefore(ParentBefore(n))

\* C30 as stated: on every description the rules of huxiu leave the tree the
\* inline steps leave, also when several spans match.
C30_SameTreeAlways == BothDone => SameTree

\* C30: the rules of huxiu leave the tree the inline steps leave, and the
\* same string is returned, on every description in which no matched span is
\* an element sibling following the parent of another matched span; so
\* whenever at most one span matches.
C30_SameTreeUnlessSpanFollowsParent ==
    BothDone =>
        /\ ~SpanFollowsParentOfSpan => SameTree
        /\ Cardinality(DisclaimerSpans) <= 1 => SameTree

\* Two spans under one parent matched beside other content, and both
\* cleanings removed the parent and left the same tree.
C30_Witness ==
    /\ BothDone
    /\ Cardinality(DisclaimerSpans) >= 2
    /\ ~SpanFollowsParentOfSpan
    /\ SameTree
    /\ doc # Load(html)
    /\ out # <<>>

====
